---- MODULE Spec2Model ----
(***************************************************************************)
(* A model of the ADMM solvers of GGLasso:                                 *)
(*   gglasso/solver/admm_solver.py      ADMM_MGL, ADMM_stopping_criterion  *)
(*   gglasso/solver/ext_admm_solver.py  ext_ADMM_MGL,                      *)
(*                                      ext_ADMM_stopping_criterion,       *)
(*                                      prox_2norm_G                       *)
(*                                                                         *)
(* Real numbers are fixed-point integers: the real x is the integer x*SC.  *)
(* A matrix is a record [r, c, e] with e a function on (0..r-1)\X(0..c-1); *)
(* a 3d array is a function from the instance index to matrices; numpy     *)
(* arrays and Python dicts live in a heap so that object identity          *)
(* (aliasing, in-place writes) is part of the state.                       *)
(***************************************************************************)
EXTENDS Integers, Sequences, FiniteSets, TLC

(***************************************************************************)
(* Fixed-point arithmetic                                                  *)
(***************************************************************************)
\* the integer that stands for the real number 1.0
SC == 1000

Abs(x) == IF x < 0 THEN -x ELSE x

Sgn(x) == IF x < 0 THEN -1 ELSE IF x > 0 THEN 1 ELSE 0

Max2(a, b) == IF a >= b THEN a ELSE b

Min2(a, b) == IF a <= b THEN a ELSE b

\* division rounding towards zero (so that Quot(-a, b) = -Quot(a, b))
Quot(a, b) == IF a >= 0 THEN a \div b ELSE -((-a) \div b)

RECURSIVE SqrtIter(_, _, _)
SqrtIter(n, lo, hi) ==
  IF lo >= hi THEN lo
  ELSE LET mid == (lo + hi + 1) \div 2
       IN IF mid * mid <= n THEN SqrtIter(n, mid, hi) ELSE SqrtIter(n, lo, mid - 1)

\* floor of the square root of n >= 0 (np.sqrt, np.linalg.norm)
ISqrt(n) == SqrtIter(n, 0, Min2(n, 46340))

RECURSIVE SumOver(_, _)
SumOver(f, D) ==
  IF D = {} THEN 0
  ELSE LET x == CHOOSE y \in D : TRUE IN f[x] + SumOver(f, D \ {x})

(***************************************************************************)
(* Matrices (2d numpy arrays) with numpy's broadcasting                    *)
(***************************************************************************)
Idx(r, c) == (0 .. r - 1) \X (0 .. c - 1)

Mat(r, c, f) == [r |-> r, c |-> c, e |-> f]

Zeros(r, c) == Mat(r, c, [ij \in Idx(r, c) |-> 0])

Eye(p) == Mat(p, p, [ij \in Idx(p, p) |-> IF ij[1] = ij[2] THEN SC ELSE 0])

\* entry (i, j) of A seen through broadcasting: an axis of length 1 is repeated
At(A, i, j) == A.e[<<IF A.r = 1 THEN 0 ELSE i, IF A.c = 1 THEN 0 ELSE j>>]

\* numpy can broadcast two axes when they are equal or one of them is 1
AxisOk(m, n) == m = n \/ m = 1 \/ n = 1

BcOk(A, B) == AxisOk(A.r, B.r) /\ AxisOk(A.c, B.c)

MAdd(A, B) ==
  LET r == Max2(A.r, B.r)
      c == Max2(A.c, B.c)
  IN Mat(r, c, [ij \in Idx(r, c) |-> At(A, ij[1], ij[2]) + At(B, ij[1], ij[2])])

MSub(A, B) ==
  LET r == Max2(A.r, B.r)
      c == Max2(A.c, B.c)
  IN Mat(r, c, [ij \in Idx(r, c) |-> At(A, ij[1], ij[2]) - At(B, ij[1], ij[2])])

\* x * A for a fixed-point scalar x
MScale(x, A) == Mat(A.r, A.c, [ij \in Idx(A.r, A.c) |-> Quot(x * A.e[ij], SC)])

\* A.T
MT(A) == Mat(A.c, A.r, [ij \in Idx(A.c, A.r) |-> A.e[<<ij[2], ij[1]>>]])

IsSquare(A) == A.r = A.c

\* np.linalg.norm of a matrix (Frobenius)
MSumSq(A) == SumOver([ij \in Idx(A.r, A.c) |-> A.e[ij] * A.e[ij]], Idx(A.r, A.c))

MNorm(A) == ISqrt(MSumSq(A))

\* abs(A - A.T).max() <= 1e-5 : in fixed point, exactly symmetric
IsSymmetric(A) ==
  /\ BcOk(A, MT(A))
  /\ \A ij \in Idx(Max2(A.r, A.c), Max2(A.r, A.c)) :
       At(A, ij[1], ij[2]) = At(A, ij[2], ij[1])

\* n1 / (1 + n2)
Ratio(n1, n2) == (n1 * SC) \div (SC + n2)

(***************************************************************************)
(* The proximal operators of gglasso/solver/ggl_helper.py (not among the   *)
(* source files at hand; modelled from the specification, sections 4.1 to  *)
(* 4.3) on matrices of dimension 1 and 2.                                  *)
(***************************************************************************)
\* b = (d + sqrt(d^2 + 4 beta)) / 2 for one eigenvalue d
PhiRoot(d, beta) == (d + ISqrt(d * d + 4 * beta * SC)) \div 2

\* phiplus(A, beta, D, Q) = Q diag(PhiRoot(D)) Q^T with D, Q = eigh(A), which
\* reads the lower triangle of A only.  For p = 2 the eigenvalues are m + r and
\* m - r with m = (a + d)/2, r = sqrt(((a - d)/2)^2 + b^2), and
\* Q diag(f1, f2) Q^T = ((f1 + f2)/2) I + ((f1 - f2)/(2 r)) (A - m I).
phiplus(A, beta) ==
  IF A.r = 1
  THEN Mat(1, 1, [ij \in Idx(1, 1) |-> PhiRoot(A.e[<<0, 0>>], beta)])
  ELSE LET a == A.e[<<0, 0>>]
           b == A.e[<<1, 0>>]
           d == A.e[<<1, 1>>]
           r2 == ISqrt((a - d) * (a - d) + 4 * b * b)
           f1 == PhiRoot((a + d + r2) \div 2, beta)
           f2 == PhiRoot((a + d - r2) \div 2, beta)
           od == IF r2 = 0 THEN 0 ELSE Quot((f1 - f2) * 2 * b, 2 * r2)
           dg == IF r2 = 0 THEN 0 ELSE Quot((f1 - f2) * (a - d), 2 * r2)
       IN Mat(2, 2, [ij \in Idx(2, 2) |->
                       IF ij = <<0, 0>> THEN Quot(f1 + f2 + dg, 2)
                       ELSE IF ij = <<1, 1>> THEN Quot(f1 + f2 - dg, 2)
                       ELSE od])

\* sign(x) * max(0, |x| - t)
SoftThreshold(x, t) == Sgn(x) * Max2(0, Abs(x) - t)

\* prox_od_1norm(A, l): soft-threshold off the diagonal, the diagonal passes
prox_od_1norm(A, l) ==
  Mat(A.r, A.c, [ij \in Idx(A.r, A.c) |->
                   IF ij[1] = ij[2] THEN A.e[ij] ELSE SoftThreshold(A.e[ij], l)])

\* the Euclidean norm of a vector given as a function
VNorm(v) == ISqrt(SumOver([k \in DOMAIN v |-> v[k] * v[k]], DOMAIN v))

\* prox_2norm(v, l2) = max(0, 1 - l2/||v||) v, the zero vector maps to itself
prox_2norm(v, l2) ==
  LET n == VNorm(v)
  IN [k \in DOMAIN v |-> IF n <= l2 THEN 0 ELSE Quot(v[k] * (n - l2), n)]

\* the fused penalty for two instances: the difference of the pair is
\* soft-thresholded (the two values move towards each other by l2, or meet)
FusePair(x, y, l2) ==
  IF Abs(x - y) <= 2 * l2
  THEN <<Quot(x + y, 2), Quot(x + y, 2)>>
  ELSE <<x - Sgn(x - y) * l2, y + Sgn(x - y) * l2>>

\* prox_p(X, l1, l2, reg) on a 3d array X: a function from instances to matrices.
\* Off the diagonal: 'GGL' soft-thresholds every entry by l1 and then shrinks the
\* vector over the instances by l2; 'FGL' fuses consecutive instances by l2 and
\* then soft-thresholds by l1.  The diagonal passes.
prox_p(X, l1, l2, reg) ==
  LET Ks == DOMAIN X
      A0 == X[0]
      soft(ij) == [k \in Ks |-> SoftThreshold(X[k].e[ij], l1)]
      ggl(ij) == prox_2norm(soft(ij), l2)
      fp(ij) == FusePair(X[0].e[ij], X[Cardinality(Ks) - 1].e[ij], l2)
      fgl(ij) == [k \in Ks |-> SoftThreshold(IF k = 0 THEN fp(ij)[1] ELSE fp(ij)[2], l1)]
  IN [k \in Ks |->
        Mat(A0.r, A0.c, [ij \in Idx(A0.r, A0.c) |->
              IF ij[1] = ij[2] THEN X[k].e[ij]
              ELSE IF reg = "GGL" THEN ggl(ij)[k] ELSE fgl(ij)[k]])]

(***************************************************************************)
(* 3d arrays (K, r, c): functions from the instance index to matrices      *)
(***************************************************************************)
\* fixed-point quotient a / b and product a * b
FDiv(a, b) == Quot(a * SC, b)

FMul(a, b) == Quot(a * b, SC)

\* X.shape of a 3d array
Shape3(X) == <<Cardinality(DOMAIN X), X[0].r, X[0].c>>

TAdd(X, Y) == [k \in DOMAIN X |-> MAdd(X[k], Y[k])]

TSub(X, Y) == [k \in DOMAIN X |-> MSub(X[k], Y[k])]

\* np.linalg.norm of a 3d array
TNorm(X) == ISqrt(SumOver([k \in DOMAIN X |-> MSumSq(X[k])], DOMAIN X))

\* trp(X): every instance transposed
trp(X) == [k \in DOMAIN X |-> MT(X[k])]

\* abs(trp(X) - X).max() <= 1e-5
TSymmetric(X) == \A k \in DOMAIN X : IsSymmetric(X[k])

(***************************************************************************)
(* admm_solver.py: the three updates and the stopping criterion            *)
(***************************************************************************)
\* lines 83-87: W_t = Theta_t - X_t - (nk/rho) * S, Omega_t[k] = phiplus(W_t[k], nk[k]/rho)
MGL_OmegaUpdate(Theta, X, S, nk, rho) ==
  [k \in DOMAIN S |->
     phiplus(MSub(MSub(Theta[k], X[k]), MScale(FDiv(nk[k] * SC, rho), S[k])),
             FDiv(nk[k] * SC, rho))]

\* line 90: Theta_t = prox_p(Omega_t + X_t, (1/rho)*lambda1, (1/rho)*lambda2, reg)
MGL_ThetaUpdate(Omega, X, lambda1, lambda2, rho, reg) ==
  prox_p(TAdd(Omega, X), FDiv(lambda1, rho), FDiv(lambda2, rho), reg)

\* line 92: X_t = X_t + Omega_t - Theta_t
MGL_DualUpdate(X, Omega, Theta) == TSub(TAdd(X, Omega), Theta)

\* lines 118-136
ADMM_stopping_criterion(Omega, Theta, X, S, lambda1, lambda2, nk, reg) ==
  LET term1 == Ratio(TNorm(TSub(Theta, prox_p(TAdd(Theta, X), lambda1, lambda2, reg))),
                     TNorm(Theta))
      term2 == Ratio(TNorm(TSub(Theta, Omega)), TNorm(Theta))
      proxK == [k \in DOMAIN S |->
                  phiplus(MSub(MSub(Omega[k], MScale(nk[k] * SC, S[k])), X[k]),
                          nk[k] * SC)]
      term3 == Ratio(TNorm(TSub(Omega, proxK)), TNorm(Omega))
  IN Max2(term1, Max2(term2, term3))

(***************************************************************************)
(* Objects.  An address is <<owner, n>>: owner 0 is the caller, owner i    *)
(* the i-th solver invocation.  The heap maps the address of a numpy array *)
(* to its value (a matrix, a 3d array, or the index array G) and the       *)
(* address of a dict to a function from keys to addresses.                 *)
(***************************************************************************)
\* no object: an argument that was not supplied, a variable not yet assigned
Null == <<0, 0>>

\* a local variable that has not been assigned (reading it is an UnboundLocalError)
Unbound == -1

Put(h, a, v) == IF a \in DOMAIN h THEN [h EXCEPT ![a] = v] ELSE h @@ (a :> v)

\* an allocator that numbers the objects of every invocation in one space
FreshShared(f, n) == <<1, f.next + n>>

\* the address the next object of frame f gets
Fresh(f, n) == <<f.id, f.next + n>>

\* the dict at address d with every value replaced by the array it refers to
DictVal(h, d) == [k \in DOMAIN h[d] |-> h[h[d][k]]]

\* ndarray.copy(): a new array object holding the same values
ndarray_copy(h, a, new) == Put(h, new, h[a])

\* dict.copy(): a new dict object whose values are the SAME objects
dict_copy(h, d, new) == Put(h, new, h[d])

\* x[:n] and x[1:n+1] of a numpy vector held as a sequence (slices clamp)
SliceTo(x, n) == SubSeq(x, 1, Min2(n, Len(x)))

SliceFrom1To(x, n) == SubSeq(x, 2, Min2(n, Len(x)))

\* the result of one step of a frame: the heap and the frame after it
Res(h, f) == [h |-> h, f |-> f]

\* an exception leaves the function: nothing is returned
Raise(h, f, exc) == Res(h, [f EXCEPT !.pc = "raised", !.exc = exc])

(***************************************************************************)
(* admm_solver.py, ADMM_MGL                                                *)
(***************************************************************************)
\* lines 30-33 and 39-42 of ext_admm_solver.py: max_iter from kwargs, or 1000
KwMaxIter(kw) == IF kw.has_max_iter THEN kw.max_iter ELSE 1000

\* lines 34-38: rho from kwargs, or 1.
KwRho(kw) == IF kw.has_rho THEN kw.rho ELSE SC

\* lines 23-52: the assertions and the normalisation of the arguments
MGL_Validate(h, f) ==
  LET a == f.arg
      S == h[a.S]
      K == Cardinality(DOMAIN S)
  IN IF Shape3(h[a.Omega_0]) # Shape3(S) THEN Raise(h, f, "AssertionError")
     ELSE IF S[0].r # S[0].c THEN Raise(h, f, "AssertionError")
     ELSE IF a.reg \notin {"GGL", "FGL"} THEN Raise(h, f, "AssertionError")
     ELSE IF ~(Min2(a.lambda1.v[0], a.lambda2) > 0) THEN Raise(h, f, "AssertionError")
     ELSE IF a.kw.has_rho /\ ~(a.kw.rho > 0) THEN Raise(h, f, "AssertionError")
     ELSE IF a.n_samples.kind = "array"
       \* line 46: `n_samples == None` is an array, whose truth value is ambiguous
       \* for K > 1; for K = 1 line 51 reads nk before it is assigned
       THEN Raise(h, f, IF K > 1 THEN "ValueError" ELSE "UnboundLocalError")
     ELSE Res(h, [f EXCEPT !.pc = "init", !.K = K, !.max_iter = KwMaxIter(a.kw),
                           !.rho = KwRho(a.kw),
                           !.nk = [k \in DOMAIN S |->
                                     IF a.n_samples.kind = "None" THEN 1 ELSE a.n_samples.v[0]]])

\* the initialisation with Omega_t = Omega_0 in the place of Omega_0.copy()
MGL_InitializeNoCopy(h, f) ==
  LET a == f.arg
      S == h[a.S]
      Theta_0 == IF a.Theta_0 = Null THEN Fresh(f, 1) ELSE a.Theta_0
      h2 == IF a.Theta_0 = Null THEN Put(h, Fresh(f, 1), h[a.Omega_0]) ELSE h
      X_0 == IF a.X_0 = Null THEN Fresh(f, 2) ELSE a.X_0
      h3 == IF a.X_0 = Null
            THEN Put(h2, Fresh(f, 2), [k \in DOMAIN S |-> Zeros(S[0].r, S[0].r)])
            ELSE h2
      h4 == Put(h3, Fresh(f, 3), h3[Theta_0])
      h5 == Put(h4, Fresh(f, 4), h4[X_0])
  IN [h |-> h5,
      f |-> [f EXCEPT !.pc = "loop", !.next = f.next + 5, !.status = "not optimal",
                      !.Omega_t = a.Omega_0, !.Theta_t = Fresh(f, 3),
                      !.X_t = Fresh(f, 4),
                      !.runtime = [n \in 1 .. f.max_iter |-> 0],
                      !.kkt_residual = [n \in 1 .. f.max_iter |-> 0]]]

\* lines 55-66
MGL_Initialize(h, f) ==
  LET a == f.arg
      S == h[a.S]
      h1 == ndarray_copy(h, a.Omega_0, Fresh(f, 0))
      \* line 57-58: Theta_0 = Omega_0.copy() when no Theta_0 was given
      Theta_0 == IF a.Theta_0 = Null THEN Fresh(f, 1) ELSE a.Theta_0
      h2 == IF a.Theta_0 = Null THEN ndarray_copy(h1, a.Omega_0, Fresh(f, 1)) ELSE h1
      \* line 59-60: X_0 = np.zeros((K,p,p))
      X_0 == IF a.X_0 = Null THEN Fresh(f, 2) ELSE a.X_0
      h3 == IF a.X_0 = Null
            THEN Put(h2, Fresh(f, 2), [k \in DOMAIN S |-> Zeros(S[0].r, S[0].r)])
            ELSE h2
      h4 == ndarray_copy(h3, Theta_0, Fresh(f, 3))
      h5 == ndarray_copy(h4, X_0, Fresh(f, 4))
  IN Res(h5, [f EXCEPT !.pc = "loop", !.next = f.next + 5, !.status = "not optimal",
                       !.Omega_t = Fresh(f, 0), !.Theta_t = Fresh(f, 3),
                       !.X_t = Fresh(f, 4),
                       !.runtime = [n \in 1 .. f.max_iter |-> 0],
                       !.kkt_residual = [n \in 1 .. f.max_iter |-> 0]])

\* a loop that makes one pass more than range(max_iter)
LoopOnceMore(iter_t, max_iter) == iter_t < max_iter

\* line 68 (and 67 of ext_admm_solver.py): for iter_t in np.arange(max_iter)
LoopContinues(iter_t, max_iter) == iter_t + 1 < max_iter

ForLoop(h, f) ==
  IF LoopContinues(f.iter_t, f.max_iter)
  THEN Res(h, [f EXCEPT !.pc = "eval", !.iter_t = f.iter_t + 1])
  ELSE Res(h, [f EXCEPT !.pc = "after"])

\* lines 76-78 (75-77): convergence is declared when eta_A <= eps_admm
Converged(eta_A, eps_admm) == eta_A <= eps_admm

\* lines 70-78: the stopping criterion at the head of the loop body
MGL_Evaluate(h, f) ==
  LET a == f.arg
      Omega == h[f.Omega_t]
      Theta == h[f.Theta_t]
  IN IF Shape3(Omega) # Shape3(Theta) \/ Shape3(Theta) # Shape3(h[a.S])
     THEN Raise(h, [f EXCEPT !.nevals = f.nevals + 1], "AssertionError")
     ELSE LET eta == ADMM_stopping_criterion(Omega, Theta, h[f.X_t], h[a.S],
                                             a.lambda1.v[0], a.lambda2, f.nk, a.reg)
              f1 == [f EXCEPT !.eta_A = eta, !.nevals = f.nevals + 1, !.fresh = FALSE,
                              !.prev = [Omega |-> Omega, Theta |-> Theta, X |-> h[f.X_t]],
                              !.kkt_residual = [f.kkt_residual EXCEPT ![f.iter_t + 1] = eta]]
          IN IF Converged(eta, a.eps_admm)
             THEN Res(h, [f1 EXCEPT !.pc = "after", !.status = "optimal"])
             ELSE Res(h, [f1 EXCEPT !.pc = "omega"])

\* lines 83-87: Omega_t[k,:,:] = ... writes into the array Omega_t refers to
MGL_OmegaStep(h, f) ==
  Res(Put(h, f.Omega_t,
          MGL_OmegaUpdate(h[f.Theta_t], h[f.X_t], h[f.arg.S], f.nk, f.rho)),
      [f EXCEPT !.pc = "theta"])

\* line 90: Theta_t is bound to a new array
MGL_ThetaStep(h, f) ==
  Res(Put(h, Fresh(f, 0),
          MGL_ThetaUpdate(h[f.Omega_t], h[f.X_t], f.arg.lambda1.v[0], f.arg.lambda2,
                          f.rho, f.arg.reg)),
      [f EXCEPT !.pc = "dual", !.Theta_t = Fresh(f, 0), !.next = f.next + 1])

\* lines 92-96: X_t is bound to a new array; the iteration's wall time is stored
MGL_DualStep(h, f) ==
  Res(Put(h, Fresh(f, 0), MGL_DualUpdate(h[f.X_t], h[f.Omega_t], h[f.Theta_t])),
      [f EXCEPT !.pc = "loop", !.X_t = Fresh(f, 0), !.next = f.next + 1,
                !.nupd = f.nupd + 1, !.fresh = TRUE,
                !.runtime = IF f.arg.measure
                            THEN [f.runtime EXCEPT ![f.iter_t + 1] = 1]
                            ELSE f.runtime])

\* lines 101-102 (110-111): the status after the loop
FinalStatus(status, eta_A, eps_admm) ==
  IF eta_A > eps_admm THEN "max iterations reached" ELSE status

\* lines 111-114 (121-124)
Info(f, status) ==
  IF f.arg.measure
  THEN [status |-> status, measured |-> TRUE,
        runtime |-> SliceTo(f.runtime, f.iter_t),
        kkt_residual |-> SliceFrom1To(f.kkt_residual, f.iter_t + 1)]
  ELSE [status |-> status, measured |-> FALSE, runtime |-> <<>>, kkt_residual |-> <<>>]

\* the end of ADMM_MGL without the assertions of lines 107-108
MGL_FinishUnchecked(h, f) ==
  IF f.eta_A = Unbound THEN Raise(h, f, "UnboundLocalError")
  ELSE LET status == FinalStatus(f.status, f.eta_A, f.arg.eps_admm)
       IN Res(h, [f EXCEPT !.pc = "done", !.status = status,
                           !.sol = [Omega |-> f.Omega_t, Theta |-> f.Theta_t,
                                    X |-> f.X_t, X0 |-> Null, X1 |-> Null],
                           !.info = Info(f, status)])

\* lines 101-116
MGL_Finish(h, f) ==
  \* line 101 reads eta_A, which is unbound when the loop body never ran
  IF f.eta_A = Unbound THEN Raise(h, f, "UnboundLocalError")
  ELSE IF ~TSymmetric(h[f.Omega_t]) \/ ~TSymmetric(h[f.Theta_t])
  THEN Raise(h, f, "AssertionError")
  ELSE LET status == FinalStatus(f.status, f.eta_A, f.arg.eps_admm)
       IN Res(h, [f EXCEPT !.pc = "done", !.status = status,
                           !.sol = [Omega |-> f.Omega_t, Theta |-> f.Theta_t,
                                    X |-> f.X_t, X0 |-> Null, X1 |-> Null],
                           !.info = Info(f, status)])

(***************************************************************************)
(* ext_admm_solver.py: prox_2norm_G and the stopping criterion, on dicts   *)
(* given by value (a function from the key k to the matrix X[k]).  A       *)
(* result is [exc, val]: exc is "" or the exception that was raised.       *)
(***************************************************************************)
Ok(v) == [exc |-> "", val |-> v]

Exc(e) == [exc |-> e, val |-> 0]

\* the index array G of shape (d0, L, K): g maps <<x, l, k>> to G[x, l, k]
GArray(d0, L, K, g) == [d0 |-> d0, L |-> L, K |-> K, g |-> g]

\* Python's a[i] on an axis of length n: a negative i counts from the end
PyIdx(i, n) == IF i < 0 THEN i + n ELSE i

PyIdxOk(i, n) == -n <= i /\ i < n

\* lines 194-197: the instances that have an entry in group l
Members(G, l) == {k \in 0 .. G.K - 1 : G.g[<<0, l, k>>] # -1}

GRow(X, G, l, k) == PyIdx(G.g[<<0, l, k>>], X[k].r)

GCol(X, G, l, k) == PyIdx(G.g[<<1, l, k>>], X[k].c)

\* every gathered value shrunk by itself, in the place of the prox of the vector
GroupProxEntrywise(X, G, l2, l) ==
  [k \in Members(G, l) |->
     SoftThreshold(X[k].e[<<GRow(X, G, l, k), GCol(X, G, l, k)>>], l2)]

\* lines 192-201: v gathered from X, and its prox
GroupProx(X, G, l2, l) ==
  prox_2norm([k \in Members(G, l) |-> X[k].e[<<GRow(X, G, l, k), GCol(X, G, l, k)>>]], l2)

\* the result of group l written to X1 at (row, col) only
WriteGroupOneSided(X, X1, G, l2, l) ==
  LET z == GroupProx(X, G, l2, l)
  IN [k \in DOMAIN X1 |->
        IF k \in Members(G, l)
        THEN [X1[k] EXCEPT !.e = [X1[k].e EXCEPT
                 ![<<GRow(X, G, l, k), GCol(X, G, l, k)>>] = z[k]]]
        ELSE X1[k]]

\* lines 203-209: the result of group l written to X1, above and below the diagonal
WriteGroup(X, X1, G, l2, l) ==
  LET z == GroupProx(X, G, l2, l)
  IN [k \in DOMAIN X1 |->
        IF k \in Members(G, l)
        THEN [X1[k] EXCEPT !.e = [X1[k].e EXCEPT
                 ![<<GRow(X, G, l, k), GCol(X, G, l, k)>>] = z[k],
                 ![<<GCol(X, G, l, k), GRow(X, G, l, k)>>] = z[k]]]
        ELSE X1[k]]

\* lines 190-209: for l in np.arange(L)
RECURSIVE GroupLoop(_, _, _, _, _)
GroupLoop(X, X1, G, l2, l) ==
  IF l >= G.L THEN X1 ELSE GroupLoop(X, WriteGroup(X, X1, G, l2, l), G, l2, l + 1)

\* lines 171-211
prox_2norm_G(X, G, l2) ==
  LET K == Cardinality(DOMAIN X)
  IN IF ~(l2 > 0) THEN Exc("AssertionError")
     ELSE IF \E k \in DOMAIN X : ~IsSymmetric(X[k]) THEN Exc("AssertionError")
     ELSE IF G.d0 # 2 \/ G.K # K THEN Exc("AssertionError")
     ELSE IF \E l \in 0 .. G.L - 1 : \E k \in Members(G, l) :
               \/ ~PyIdxOk(G.g[<<0, l, k>>], X[k].r) \/ ~PyIdxOk(G.g[<<1, l, k>>], X[k].c)
               \/ ~PyIdxOk(G.g[<<1, l, k>>], X[k].r) \/ ~PyIdxOk(G.g[<<0, l, k>>], X[k].c)
       THEN Exc("IndexError")
     ELSE Ok(GroupLoop(X, X, G, l2, 0))

\* the Euclidean norm of the per-instance terms
TermNorm(t) == VNorm(t)

\* lines 128-156
ext_ADMM_stopping_criterion(Omega, Theta, Lambda, X0, X1, S, G, lambda1, lambda2) ==
  LET Ks == DOMAIN S
      A(k) == MSub(MSub(Omega[k], S[k]), X0[k])
  IN IF \E k \in Ks : ~IsSquare(A(k)) THEN Exc("LinAlgError")
     ELSE
     LET term1 == [k \in Ks |-> Ratio(MNorm(MSub(Omega[k], phiplus(A(k), SC))),
                                     MNorm(Omega[k]))]
         term2 == [k \in Ks |->
                     Ratio(MNorm(MSub(Theta[k],
                                      prox_od_1norm(MSub(MAdd(Theta[k], X0[k]), X1[k]),
                                                    lambda1[k]))),
                           MNorm(Theta[k]))]
         term4 == [k \in Ks |-> Ratio(MNorm(MSub(Omega[k], Theta[k])), MNorm(Theta[k]))]
         term5 == [k \in Ks |-> Ratio(MNorm(MSub(Lambda[k], Theta[k])), MNorm(Theta[k]))]
         V == prox_2norm_G([k \in Ks |-> MAdd(Lambda[k], X1[k])], G, lambda2)
     IN IF V.exc # "" THEN V
        ELSE LET term3 == [k \in Ks |-> Ratio(MNorm(MSub(V.val[k], Lambda[k])),
                                             MNorm(Lambda[k]))]
             IN Ok(Max2(TermNorm(term1), Max2(TermNorm(term2), Max2(TermNorm(term3),
                    Max2(TermNorm(term4), TermNorm(term5))))))

(***************************************************************************)
(* gglasso/helper/ext_admm_helper.py, check_G (not among the source files  *)
(* at hand; modelled from the specification, section 3): the coordinates   *)
(* of an instance are both the sentinel -1 or both valid indices, and a    *)
(* coordinate of an instance belongs to at most one group.                 *)
(***************************************************************************)
check_G(G, p) ==
  /\ G.d0 = 2
  /\ G.K = Cardinality(DOMAIN p)
  /\ \A l \in 0 .. G.L - 1 : \A k \in 0 .. G.K - 1 :
       LET r == G.g[<<0, l, k>>]
           c == G.g[<<1, l, k>>]
       IN \/ r = -1 /\ c = -1
          \/ 0 <= r /\ r < p[k] /\ 0 <= c /\ c < p[k]
  /\ \A l1 \in 0 .. G.L - 1 : \A l2 \in 0 .. G.L - 1 : \A k \in 0 .. G.K - 1 :
       (l1 # l2 /\ G.g[<<0, l1, k>>] # -1 /\ G.g[<<0, l2, k>>] # -1)
         => {G.g[<<0, l1, k>>], G.g[<<1, l1, k>>]} # {G.g[<<0, l2, k>>], G.g[<<1, l2, k>>]}

(***************************************************************************)
(* ext_admm_solver.py, ext_ADMM_MGL                                        *)
(***************************************************************************)
\* d[k] = a on a dict value
DictSet(d, k, a) == [x \in (DOMAIN d) \cup {k} |-> IF x = k THEN a ELSE d[x]]

\* the smallest element of a non-empty set of integers
SetMin(B) == CHOOSE x \in B : \A y \in B : x <= y

\* the first instance at which a loop over k = 0 .. K-1 fails, or K
FirstBad(bad, K) == IF bad = {} THEN K ELSE SetMin(bad)

\* lines 31-32: a float lambda1 becomes a vector of length K
NormLambda1(lambda1, K) ==
  IF lambda1.kind = "float" THEN [k \in 0 .. K - 1 |-> lambda1.v[0]] ELSE lambda1.v

\* lines 26-47
EXT_Validate(h, f) ==
  LET a == f.arg
      S == DictVal(h, a.S)
      K == Cardinality(DOMAIN S)
      p == [k \in 0 .. K - 1 |-> S[k].r]
      lam == NormLambda1(a.lambda1, K)
  IN \* line 34: a Python int has no attribute min
     IF a.lambda1.kind = "int" THEN Raise(h, f, "AttributeError")
     ELSE IF ~(Min2(SetMin({lam[k] : k \in DOMAIN lam}), a.lambda2) > 0)
       THEN Raise(h, f, "AssertionError")
     ELSE IF a.reg \notin {"GGL"} THEN Raise(h, f, "AssertionError")
     ELSE IF ~check_G(h[a.G], p) THEN Raise(h, f, "AssertionError")
     ELSE IF a.kw.has_rho /\ ~(a.kw.rho > 0) THEN Raise(h, f, "AssertionError")
     ELSE Res(h, [f EXCEPT !.pc = "init", !.K = K, !.p = p, !.lam1 = lam,
                           !.max_iter = KwMaxIter(a.kw), !.rho = KwRho(a.kw)])

\* lines 51-65
EXT_Initialize(h, f) ==
  LET a == f.arg
      Ks == 0 .. f.K - 1
      h1 == dict_copy(h, a.Omega_0, Fresh(f, 0))
      h2 == dict_copy(h1, a.Omega_0, Fresh(f, 1))
      h3 == dict_copy(h2, a.Omega_0, Fresh(f, 2))
      \* Z_t = dict(), X0_t = dict(), X1_t = dict(), then filled with zeros
      h4 == Put(h3, Fresh(f, 3), <<>>)
      h5 == Put(h4, Fresh(f, 4), [k \in Ks |-> Fresh(f, 6 + k)])
      h6 == Put(h5, Fresh(f, 5), [k \in Ks |-> Fresh(f, 6 + f.K + k)])
      zeros == [x \in {Fresh(f, 6 + n) : n \in 0 .. 2 * f.K - 1} |->
                  LET k == (x[2] - f.next - 6) % f.K IN Zeros(f.p[k], f.p[k])]
  IN Res(h6 @@ zeros,
         [f EXCEPT !.pc = "loop", !.next = f.next + 6 + 2 * f.K,
                   !.status = "not optimal",
                   !.Omega_t = Fresh(f, 0), !.Theta_t = Fresh(f, 1),
                   !.Lambda_t = Fresh(f, 2), !.Z_t = Fresh(f, 3),
                   !.X0_t = Fresh(f, 4), !.X1_t = Fresh(f, 5),
                   !.runtime = [n \in 1 .. f.max_iter |-> 0],
                   !.kkt_residual = [n \in 1 .. f.max_iter |-> 0]])

\* lines 69-77
EXT_Evaluate(h, f) ==
  LET a == f.arg
      r == ext_ADMM_stopping_criterion(DictVal(h, f.Omega_t), DictVal(h, f.Theta_t),
              DictVal(h, f.Lambda_t), DictVal(h, f.X0_t), DictVal(h, f.X1_t),
              DictVal(h, a.S), h[a.G], f.lam1, a.lambda2)
      f0 == [f EXCEPT !.nevals = f.nevals + 1]
  IN IF r.exc # "" THEN Raise(h, f0, r.exc)
     ELSE LET f1 == [f0 EXCEPT !.eta_A = r.val, !.fresh = FALSE,
                               !.prev = [Omega |-> DictVal(h, f.Omega_t),
                                         Theta |-> DictVal(h, f.Theta_t),
                                         Lambda |-> DictVal(h, f.Lambda_t),
                                         X0 |-> DictVal(h, f.X0_t),
                                         X1 |-> DictVal(h, f.X1_t)],
                               !.kkt_residual = [f.kkt_residual EXCEPT ![f.iter_t + 1] = r.val]]
          IN IF Converged(r.val, a.eps_admm)
             THEN Res(h, [f1 EXCEPT !.pc = "after", !.status = "optimal"])
             ELSE Res(h, [f1 EXCEPT !.pc = "omega"])

\* line 83: W_t = Theta_t[k] - X0_t[k] - (1/rho) * S[k]
EXT_W(Theta, X0, S, rho, k) == MSub(MSub(Theta[k], X0[k]), MScale(FDiv(SC, rho), S[k]))

\* lines 82-85: Omega_t[k] is bound to a new array, k = 0 .. K-1; eigh fails on a
\* matrix that is not square
EXT_OmegaStep(h, f) ==
  LET Ks == 0 .. f.K - 1
      W(k) == EXT_W(DictVal(h, f.Theta_t), DictVal(h, f.X0_t), DictVal(h, f.arg.S), f.rho, k)
      lim == FirstBad({k \in Ks : ~IsSquare(W(k))}, f.K)
      done == 0 .. lim - 1
      h1 == [x \in {Fresh(f, k) : k \in done} |->
               phiplus(W(x[2] - f.next), FDiv(SC, f.rho))] @@ h
      h2 == [h1 EXCEPT ![f.Omega_t] =
               [k \in DOMAIN h[f.Omega_t] |-> IF k \in done THEN Fresh(f, k) ELSE h[f.Omega_t][k]]]
      f1 == [f EXCEPT !.next = f.next + f.K, !.pc = "theta"]
  IN IF lim < f.K THEN Raise(h2, f1, "LinAlgError") ELSE Res(h2, f1)

\* V_t with the factor 0.5 applied on and above the diagonal only
EXT_V_UpperHalved(Omega, X0, Lambda, X1, k) ==
  LET A == MSub(MAdd(MAdd(Omega[k], X0[k]), Lambda[k]), X1[k])
  IN Mat(A.r, A.c, [ij \in Idx(A.r, A.c) |->
                      IF ij[1] <= ij[2] THEN Quot(A.e[ij], 2) ELSE A.e[ij]])

\* V_t from Lambda_t[k] in the place of the updated Omega_t[k]
EXT_V_WithoutOmega(Omega, X0, Lambda, X1, k) ==
  LET A == MSub(MAdd(MAdd(Lambda[k], X0[k]), Lambda[k]), X1[k])
  IN Mat(A.r, A.c, [ij \in Idx(A.r, A.c) |-> Quot(A.e[ij], 2)])

\* line 89: V_t = (Omega_t[k] + X0_t[k] + Lambda_t[k] - X1_t[k]) * 0.5
EXT_V(Omega, X0, Lambda, X1, k) ==
  LET A == MSub(MAdd(MAdd(Omega[k], X0[k]), Lambda[k]), X1[k])
  IN Mat(A.r, A.c, [ij \in Idx(A.r, A.c) |-> Quot(A.e[ij], 2)])

\* lines 88-90: Theta_t[k] is bound to a new array
EXT_ThetaStep(h, f) ==
  LET Ks == 0 .. f.K - 1
      V(k) == EXT_V(DictVal(h, f.Omega_t), DictVal(h, f.X0_t), DictVal(h, f.Lambda_t),
                    DictVal(h, f.X1_t), k)
      h1 == [x \in {Fresh(f, k) : k \in Ks} |->
               prox_od_1norm(V(x[2] - f.next), FDiv(f.lam1[x[2] - f.next], 2 * f.rho))] @@ h
      h2 == [h1 EXCEPT ![f.Theta_t] =
               [k \in DOMAIN h[f.Theta_t] |-> IF k \in Ks THEN Fresh(f, k) ELSE h[f.Theta_t][k]]]
  IN Res(h2, [f EXCEPT !.next = f.next + f.K, !.pc = "lambda"])

\* lines 93-96: Z_t[k] = Theta_t[k] + X1_t[k], Lambda_t = prox_2norm_G(Z_t, G, lambda2/rho);
\* prox_2norm_G works on a deep copy: a new dict of new arrays
EXT_LambdaStep(h, f) ==
  LET Ks == 0 .. f.K - 1
      Theta == DictVal(h, f.Theta_t)
      X1 == DictVal(h, f.X1_t)
      h1 == [x \in {Fresh(f, k) : k \in Ks} |->
               MAdd(Theta[x[2] - f.next], X1[x[2] - f.next])] @@ h
      h2 == [h1 EXCEPT ![f.Z_t] = [k \in Ks |-> Fresh(f, k)]]
      r == prox_2norm_G(DictVal(h2, f.Z_t), h[f.arg.G], FDiv(f.arg.lambda2, f.rho))
      f1 == [f EXCEPT !.next = f.next + f.K]
  IN IF r.exc # "" THEN Raise(h2, f1, r.exc)
     ELSE LET h3 == [x \in {Fresh(f1, k) : k \in Ks} |-> r.val[x[2] - f1.next]] @@ h2
              h4 == Put(h3, Fresh(f1, f.K), [k \in Ks |-> Fresh(f1, k)])
          IN Res(h4, [f1 EXCEPT !.next = f1.next + f.K + 1, !.pc = "dual",
                                !.Lambda_t = Fresh(f1, f.K)])

\* a += b on numpy arrays writes into a: b must broadcast to the shape of a
IAddOk(A, B) == (B.r = A.r \/ B.r = 1) /\ (B.c = A.c \/ B.c = 1)

\* lines 99-105: X0_t[k] += Omega_t[k] - Theta_t[k]; X1_t[k] += Theta_t[k] - Lambda_t[k]
EXT_DualStep(h, f) ==
  LET Ks == 0 .. f.K - 1
      Omega == DictVal(h, f.Omega_t)
      Theta == DictVal(h, f.Theta_t)
      Lambda == DictVal(h, f.Lambda_t)
      X0 == DictVal(h, f.X0_t)
      X1 == DictVal(h, f.X1_t)
      d0(k) == MSub(Omega[k], Theta[k])
      d1(k) == MSub(Theta[k], Lambda[k])
      bad0 == {k \in Ks : ~IAddOk(X0[k], d0(k))}
      bad1 == {k \in Ks : ~IAddOk(X1[k], d1(k))}
      lim == FirstBad(bad0 \cup bad1, f.K)
      h1 == [x \in DOMAIN h |->
               IF \E k \in Ks : x = h[f.X0_t][k] /\ (k < lim \/ (k = lim /\ k \notin bad0))
               THEN LET k == CHOOSE k \in Ks : x = h[f.X0_t][k] IN MAdd(X0[k], d0(k))
               ELSE IF \E k \in Ks : x = h[f.X1_t][k] /\ k < lim
               THEN LET k == CHOOSE k \in Ks : x = h[f.X1_t][k] IN MAdd(X1[k], d1(k))
               ELSE h[x]]
  IN IF lim < f.K THEN Raise(h1, f, "ValueError")
     ELSE Res(h1, [f EXCEPT !.pc = "loop", !.nupd = f.nupd + 1, !.fresh = TRUE,
                            !.runtime = IF f.arg.measure
                                        THEN [f.runtime EXCEPT ![f.iter_t + 1] = 1]
                                        ELSE f.runtime])

\* lines 110-126
EXT_Finish(h, f) ==
  IF f.eta_A = Unbound THEN Raise(h, f, "UnboundLocalError")
  ELSE IF \E k \in 0 .. f.K - 1 :
            \/ ~IsSymmetric(DictVal(h, f.Omega_t)[k])
            \/ ~IsSymmetric(DictVal(h, f.Theta_t)[k])
  THEN Raise(h, f, "AssertionError")
  ELSE LET status == FinalStatus(f.status, f.eta_A, f.arg.eps_admm)
       IN Res(h, [f EXCEPT !.pc = "done", !.status = status,
                           !.sol = [Omega |-> f.Omega_t, Theta |-> f.Theta_t,
                                    X |-> Null, X0 |-> f.X0_t, X1 |-> f.X1_t],
                           !.info = Info(f, status)])

(***************************************************************************)
(* gglasso/problem.py, glasso_problem for several instances: construction  *)
(* and solve().  `self` is the glasso_problem object; solve() calls the    *)
(* solver, whose frame is the rest of the frame.                           *)
(***************************************************************************)
\* eps_admm = 1e-5, the default of ADMM_MGL and ext_ADMM_MGL
EpsAdmmDefault == SC \div 100000

\* no glasso_problem object: the solver is called directly
NoSelf ==
  [made |-> FALSE, given |-> <<>>, S |-> Null, G |-> Null, K |-> 0, conforming |-> FALSE,
   multiple |-> FALSE, reg |-> "", reg_params |-> <<>>, scale |-> <<>>, Omega_0 |-> Null,
   tol |-> 0, solver_params |-> <<>>, precision |-> Null, solver_info |-> <<>>,
   latent |-> FALSE, nset |-> 0, lowrank |-> Null]

\* helper/basic_linalg.py, scale_array_by_diagonal: X[i,j] / sqrt(d[i] * d[j])
scale_array_by_diagonal(X, d) ==
  Mat(X.r, X.c, [ij \in Idx(X.r, X.c) |->
                   Quot(X.e[ij] * SC, ISqrt(d[ij[1]] * d[ij[2]]))])

\* np.diag(A)
Diag(A) == [n \in 0 .. Min2(A.r, A.c) - 1 |-> A.e[<<n, n>>]]

\* lines 261-275, _default_reg_params: lambda1, lambda2 for a multiple problem,
\* and mu1, which is None unless latent
DefaultRegParams(multiple, latent, K) ==
  [x \in {"lambda1", "mu1"} \cup (IF multiple THEN {"lambda2"} ELSE {}) |->
     IF x = "lambda1" THEN [kind |-> "float", v |-> [k \in {0} |-> SC \div 100]]
     ELSE IF x = "lambda2" THEN SC \div 100
     ELSE IF ~latent THEN [kind |-> "None", v |-> [k \in {0} |-> 0]]
     ELSE IF multiple THEN [kind |-> "vector", v |-> [k \in 0 .. K - 1 |-> SC \div 10]]
     ELSE [kind |-> "float", v |-> [k \in {0} |-> SC \div 10]]]

\* the dict u put in the place of d
DictReplace(d, u) == u

\* line 319, d.update(u): the keys of u are set in d, the other keys of d stay
DictUpdate(d, u) ==
  [x \in DOMAIN d \cup DOMAIN u |-> IF x \in DOMAIN u THEN u[x] ELSE d[x]]

\* lines 307-319, set_reg_params(reg_params) with reg_params None or a dict: the
\* defaults when self.reg_params is None (held as the empty function), updated
SetRegParams(self, arg) ==
  LET given == IF arg.kind = "None" THEN <<>> ELSE arg.d
      current == IF DOMAIN self.reg_params = {}
                 THEN DefaultRegParams(self.multiple, self.latent, self.K)
                 ELSE self.reg_params
  IN DictUpdate(current, given)

\* lines 292-300 and 396-397: the defaults, updated with the given solver_params
SetSolverParams(given) ==
  [measure |-> IF given.has_measure THEN given.measure ELSE FALSE,
   rho |-> IF given.has_rho THEN given.rho ELSE SC,
   max_iter |-> IF given.has_max_iter THEN given.max_iter ELSE 1000]

\* lines 86-115, S a 3d array: _check_covariance_3d, the parameters, the scaling
PROB_Construct3d(h, f) ==
  LET a == f.arg
      S == h[a.S]
      own == Fresh(f, 0)
      h1 == ndarray_copy(h, a.S, own)
      f1 == [f EXCEPT !.next = f.next + 1]
      scale == [k \in DOMAIN S |-> Diag(S[k])]
      h2 == IF a.do_scaling
            THEN Put(h1, own, [k \in DOMAIN S |-> scale_array_by_diagonal(S[k], scale[k])])
            ELSE h1
  IN IF S[0].r # S[0].c THEN Raise(h1, f1, "AssertionError")
     ELSE IF ~TSymmetric(S) THEN Raise(h1, f1, "AssertionError")
     ELSE IF a.reg \notin {"GGL", "FGL"} THEN Raise(h1, f1, "AssertionError")
     ELSE LET self == [NoSelf EXCEPT !.made = TRUE, !.given = a, !.S = own,
                                     !.K = Cardinality(DOMAIN S), !.conforming = TRUE,
                                     !.multiple = TRUE, !.latent = a.latent, !.reg = a.reg,
                                     !.scale = scale]
          IN Res(h2, [f1 EXCEPT !.pc = "solve",
                                !.self = [self EXCEPT !.reg_params =
                                            SetRegParams(self, [kind |-> "dict", d |-> a.reg_params])]])

\* lines 86-115, S a list or a dict: _check_covariance_list copies every S[k] into a new
\* dict, check_G, the parameters, the scaling (which rebinds the keys of self.S)
PROB_ConstructDict(h, f) ==
  LET a == f.arg
      S == DictVal(h, a.S)
      K == Cardinality(DOMAIN S)
      Ks == 0 .. K - 1
      own == Fresh(f, 0)
      f1 == [f EXCEPT !.next = f.next + 1 + K]
      scale == [k \in Ks |-> Diag(S[k])]
      arrays == [x \in {Fresh(f, 1 + k) : k \in Ks} |->
                   LET k == x[2] - f.next - 1
                   IN IF a.do_scaling THEN scale_array_by_diagonal(S[k], scale[k]) ELSE S[k]]
      h1 == Put(h, own, [k \in Ks |-> Fresh(f, 1 + k)]) @@ arrays
  IN IF ~(K > 1) \/ a.G = Null THEN Raise(h, f, "AssertionError")
     ELSE IF \E k \in Ks : S[k].r # S[k].c \/ ~IsSymmetric(S[k])
       THEN Raise(h, f, "AssertionError")
     ELSE IF ~check_G(h[a.G], [k \in Ks |-> S[k].r]) THEN Raise(h, f, "AssertionError")
     ELSE IF a.reg \notin {"GGL", "FGL"} THEN Raise(h, f, "AssertionError")
     ELSE LET self == [NoSelf EXCEPT !.made = TRUE, !.given = a, !.S = own,
                                     !.G = a.G, !.K = K, !.multiple = TRUE,
                                     !.latent = a.latent, !.reg = a.reg, !.scale = scale]
          IN Res(h1, [f1 EXCEPT !.pc = "solve",
                                !.self = [self EXCEPT !.reg_params =
                                            SetRegParams(self, [kind |-> "dict", d |-> a.reg_params])]])

\* lines 86-115, S a 2d array: _check_covariance_2d, the parameters (reg is not
\* looked at), the scaling
PROB_Construct2d(h, f) ==
  LET a == f.arg
      S == h[a.S]
      own == Fresh(f, 0)
      h1 == ndarray_copy(h, a.S, own)
      f1 == [f EXCEPT !.next = f.next + 1]
      scale == Diag(S)
      h2 == IF a.do_scaling THEN Put(h1, own, scale_array_by_diagonal(S, scale)) ELSE h1
      self == [NoSelf EXCEPT !.made = TRUE, !.given = a, !.S = own, !.K = 1,
                             !.conforming = TRUE, !.multiple = FALSE, !.latent = a.latent,
                             !.scale = scale]
  IN IF S.r # S.c THEN Raise(h1, f1, "AssertionError")
     ELSE IF ~IsSymmetric(S) THEN Raise(h1, f1, "AssertionError")
     ELSE Res(h2, [f1 EXCEPT !.pc = "solve",
                             !.self = [self EXCEPT !.reg_params =
                                         SetRegParams(self, [kind |-> "dict", d |-> a.reg_params])]])

\* line 86, self.S = S.copy(): the types of S that have a method copy
HasCopy(S_type) == S_type \in {"ndarray", "list", "dict", "DataFrame"}

\* lines 17-115: glasso_problem(S, N, reg, reg_params, latent, G, do_scaling);
\* lines 142-171 choose the variant by the type of S and the number of its axes
PROB_Construct(h, f) ==
  LET a == f.arg
  IN IF ~HasCopy(a.S_type) THEN Raise(h, f, "AttributeError")
     ELSE IF a.S_type = "ndarray"
       THEN IF a.ndim = 3 THEN PROB_Construct3d(h, f)
            ELSE IF a.ndim = 2 THEN PROB_Construct2d(h, f)
            ELSE Raise(ndarray_copy(h, a.S, Fresh(f, 0)), [f EXCEPT !.next = f.next + 1],
                       "AssertionError")
     ELSE IF a.S_type \in {"list", "dict"} THEN PROB_ConstructDict(h, f)
     ELSE Raise(ndarray_copy(h, a.S, Fresh(f, 0)), [f EXCEPT !.next = f.next + 1], "TypeError")

\* lines 302-321: the next call set_reg_params(reg_params) the caller makes
PROB_SetRegParams(h, f) ==
  LET arg == f.self.given.more[f.self.nset + 1]
      f1 == [f EXCEPT !.self = [f.self EXCEPT !.nset = f.self.nset + 1]]
  IN IF arg.kind \notin {"None", "dict"} THEN Raise(h, f, "AssertionError")
     ELSE Res(h, [f1 EXCEPT !.self = [f1.self EXCEPT !.reg_params = SetRegParams(f.self, arg)]])

\* lines 277-290 and 324-344: set_start_point stores Omega_0.copy(), or the identity
PROB_StartPoint(h, f, new) ==
  LET a == f.self.given
      S == IF f.self.conforming THEN h[f.self.S] ELSE DictVal(h, f.self.S)
  IN IF a.Omega_0 # Null THEN Put(h, new, h[a.Omega_0])
     ELSE IF ~f.self.multiple THEN Put(h, new, Eye(S.r))
     ELSE IF f.self.conforming THEN Put(h, new, [k \in DOMAIN S |-> Eye(S[k].r)])
     ELSE Put(h, new, [k \in DOMAIN S |-> <<new[1], new[2] + 1 + k>>])
            @@ [x \in {<<new[1], new[2] + 1 + k>> : k \in DOMAIN S} |->
                  Eye(S[x[2] - new[2] - 1].r)]

\* lines 392-417: solve(Omega_0, solver_params, tol) up to the call of the solver.
\* tol, rtol, latent and mu1 are passed by keyword: ADMM_MGL and ext_ADMM_MGL have
\* no such parameters, so they land in **kwargs; eps_admm and n_samples are not
\* passed and keep their defaults. A single problem goes to ADMM_SGL of
\* single_admm_solver.py: the frame stops at that call
PROB_Solve(h, f) ==
  LET a == f.self.given
      new == Fresh(f, 0)
      sp == SetSolverParams(a.solver_params)
      self == [f.self EXCEPT !.Omega_0 = new, !.tol = a.tol, !.solver_params = sp]
  IN IF ~self.multiple
     THEN Res(PROB_StartPoint(h, f, new),
              [f EXCEPT !.pc = "called", !.next = f.next + 1, !.self = self,
                        !.arg = [solver |-> "ADMM_SGL", S |-> self.S, Omega_0 |-> new,
                                 lambda1 |-> self.reg_params["lambda1"],
                                 latent |-> self.latent, mu1 |-> self.reg_params["mu1"],
                                 kw |-> [has_max_iter |-> TRUE, max_iter |-> sp.max_iter,
                                         has_rho |-> TRUE, rho |-> sp.rho]]])
     ELSE
     Res(PROB_StartPoint(h, f, new),
         [f EXCEPT !.pc = "start", !.next = f.next + 1 + f.self.K, !.self = self,
                   !.arg = [solver |-> IF self.conforming THEN "ADMM_MGL" ELSE "ext_ADMM_MGL",
                            S |-> self.S, Omega_0 |-> new, G |-> self.G,
                            Theta_0 |-> Null, X_0 |-> Null,
                            lambda1 |-> self.reg_params["lambda1"],
                            lambda2 |-> self.reg_params["lambda2"], reg |-> self.reg,
                            n_samples |-> [kind |-> "None", v |-> [k \in {0} |-> 0]],
                            eps_admm |-> EpsAdmmDefault, measure |-> sp.measure,
                            kw |-> [has_max_iter |-> TRUE, max_iter |-> sp.max_iter,
                                    has_rho |-> TRUE, rho |-> sp.rho]]])

\* lines 420-433: sol['Theta'] is rescaled into a new object, the estimator keeps
\* a copy of it, solver_info is info.copy()
PROB_Collect(h, f) ==
  LET a == f.self.given
      Theta == IF f.self.conforming THEN h[f.sol.Theta] ELSE DictVal(h, f.sol.Theta)
      val == [k \in DOMAIN Theta |->
                IF a.do_scaling THEN scale_array_by_diagonal(Theta[k], f.self.scale[k])
                ELSE Theta[k]]
      new == Fresh(f, 0)
      h1 == IF f.self.conforming THEN Put(h, new, val)
            ELSE Put(h, new, [k \in DOMAIN Theta |-> Fresh(f, 1 + k)])
                   @@ [x \in {Fresh(f, 1 + k) : k \in DOMAIN Theta} |-> val[x[2] - f.next - 1]]
  IN IF f.self.latent
     THEN \* line 428, sol['L']: the sol of ADMM_MGL and ext_ADMM_MGL has no key 'L'
          IF a.do_scaling
          THEN Raise(h1, [f EXCEPT !.next = f.next + 1 + f.self.K], "KeyError")
          ELSE Raise(h, f, "KeyError")
     ELSE Res(h1, [f EXCEPT !.pc = "solved", !.next = f.next + 1 + f.self.K,
                            !.self = [f.self EXCEPT !.precision = new, !.solver_info = f.info]])

(***************************************************************************)
(* ext_admm_solver.py, prox_2norm_G called on a dict of the caller, step by *)
(* step: the assertions, the deep copy, one group after the other, return. *)
(* With `again` the caller passes the result to a second call with the     *)
(* same G and l2.                                                          *)
(***************************************************************************)
\* the locals of prox_2norm_G (X, X1, l), the calls returned so far, the results
NoPG == [X |-> Null, X1 |-> Null, l |-> 0, calls |-> 0, first |-> Null, ret |-> Null]

\* the dict the call is made on: the caller's X, then the result of the first call
PG_Input(f) == IF f.pg.calls = 0 THEN f.arg.X ELSE f.pg.ret

\* the assertions without the symmetry check of lines 180-181
PG_CheckLenient(h, f) ==
  LET Xa == PG_Input(f)
      K == Cardinality(DOMAIN h[Xa])
      G == h[f.arg.G]
      f1 == [f EXCEPT !.pg = [f.pg EXCEPT !.X = Xa, !.X1 = Null, !.l = 0]]
  IN IF ~(f.arg.l2 > 0) THEN Raise(h, f1, "AssertionError")
     ELSE IF G.d0 # 2 \/ G.K # K THEN Raise(h, f1, "AssertionError")
     ELSE Res(h, [f1 EXCEPT !.pc = "copy"])

\* lines 178-186
PG_Check(h, f) ==
  LET Xa == PG_Input(f)
      X == DictVal(h, Xa)
      K == Cardinality(DOMAIN X)
      G == h[f.arg.G]
      f1 == [f EXCEPT !.pg = [f.pg EXCEPT !.X = Xa, !.X1 = Null, !.l = 0]]
  IN IF ~(f.arg.l2 > 0) THEN Raise(h, f1, "AssertionError")
     ELSE IF \E k \in 0 .. K - 1 : ~IsSymmetric(X[k]) THEN Raise(h, f1, "AssertionError")
     ELSE IF G.d0 # 2 \/ G.K # K THEN Raise(h, f1, "AssertionError")
     ELSE Res(h, [f1 EXCEPT !.pc = "copy"])

\* line 188: X1 = copy.deepcopy(X), a new dict of new arrays (one new array for
\* every array of X, also when X holds it under two keys)
PG_Copy(h, f) ==
  LET d == h[f.pg.X]
      Ks == DOMAIN d
      first(k) == SetMin({j \in Ks : d[j] = d[k]})
      h1 == Put(h, Fresh(f, 0), [k \in Ks |-> Fresh(f, 1 + first(k))])
              @@ [x \in {Fresh(f, 1 + first(k)) : k \in Ks} |-> h[d[x[2] - f.next - 1]]]
  IN Res(h1, [f EXCEPT !.pc = "loop", !.next = f.next + 1 + Cardinality(Ks),
                       !.pg = [f.pg EXCEPT !.X1 = Fresh(f, 0)]])

\* a pass of the loop over the groups that writes nothing
PG_GroupSkip(h, f) == Res(h, [f EXCEPT !.pg = [f.pg EXCEPT !.l = f.pg.l + 1]])

\* lines 190-209, one pass of the loop: group l is gathered from X, shrunk, and
\* written into the arrays of X1
PG_Group(h, f) ==
  LET l == f.pg.l
      G == h[f.arg.G]
      X == DictVal(h, f.pg.X)
      X1 == DictVal(h, f.pg.X1)
      W == WriteGroup(X, X1, G, f.arg.l2, l)
      h1 == [x \in DOMAIN h |->
               IF \E k \in DOMAIN X1 : x = h[f.pg.X1][k]
               THEN W[CHOOSE k \in DOMAIN X1 : x = h[f.pg.X1][k]] ELSE h[x]]
  IN IF \E k \in Members(G, l) :
          \/ ~PyIdxOk(G.g[<<0, l, k>>], X[k].r) \/ ~PyIdxOk(G.g[<<1, l, k>>], X[k].c)
          \/ ~PyIdxOk(G.g[<<1, l, k>>], X[k].r) \/ ~PyIdxOk(G.g[<<0, l, k>>], X[k].c)
     THEN Raise(h, f, "IndexError")
     ELSE Res(h1, [f EXCEPT !.pg = [f.pg EXCEPT !.l = l + 1]])

\* line 211: return X1; the caller keeps the result, and may call again on it
PG_Return(h, f) ==
  LET pg == [f.pg EXCEPT !.ret = f.pg.X1, !.calls = f.pg.calls + 1,
                         !.first = IF f.pg.calls = 0 THEN f.pg.X1 ELSE f.pg.first]
  IN Res(h, [f EXCEPT !.pg = pg,
                      !.pc = IF f.arg.again /\ pg.calls = 1 THEN "start" ELSE "done"])

(***************************************************************************)
(* latent_admm_solver.py, latent_ADMM_GGL.  Its arrays are R_0.copy() and  *)
(* arrays it creates, and it returns nothing: they are held by value in    *)
(* the frame.                                                              *)
(***************************************************************************)
\* the local arrays of latent_ADMM_GGL, lines 45-53
NoLat == [R_t |-> <<>>, Theta_t |-> <<>>, L_t |-> <<>>, X0_t |-> <<>>, X1_t |-> <<>>,
          X2_t |-> <<>>, Z_t |-> <<>>, W_t |-> <<>>]

\* lines 27 and 29, `key in kwargs.items()`: items() holds (key, value) pairs, and
\* the string key equals none of them, whatever kwargs holds
InKwItems(key, kw) == FALSE

\* the block shrinkage over the instances of every off-diagonal entry
prox_od_2norm(X, l) == prox_p(X, 0, l, "GGL")

\* X / 2 on a 3d array
THalf(X) == [k \in DOMAIN X |-> MScale(SC \div 2, X[k])]

\* lines 22-41
LAT_Validate(h, f) ==
  LET a == f.arg
      S == h[a.S]
      K == Cardinality(DOMAIN S)
      has_max_iter == ~InKwItems("max_iter", a.kw)
      has_rho == ~InKwItems("rho", a.kw)
  IN IF Shape3(h[a.R_0]) # Shape3(S) THEN Raise(h, f, "AssertionError")
     ELSE IF S[0].r # S[0].c THEN Raise(h, f, "AssertionError")
     ELSE IF a.n_samples.kind = "array"
       THEN Raise(h, f, IF K > 1 THEN "ValueError" ELSE "UnboundLocalError")
     \* line 55 reads max_iter, line 62 rho: unassigned if the default was not taken
     ELSE IF ~has_max_iter \/ ~has_rho THEN Raise(h, f, "UnboundLocalError")
     ELSE Res(h, [f EXCEPT !.pc = "init", !.K = K, !.max_iter = 1000, !.rho = SC,
                           !.nk = [k \in DOMAIN S |->
                                     IF a.n_samples.kind = "None" THEN 1 ELSE a.n_samples.v[0]]])

\* lines 44-56
LAT_Initialize(h, f) ==
  LET S == h[f.arg.S]
      Z == [k \in DOMAIN S |-> Zeros(S[0].r, S[0].r)]
  IN Res(h, [f EXCEPT !.pc = "loop", !.status = "not optimal",
                      !.lat = [R_t |-> h[f.arg.R_0], Theta_t |-> Z, L_t |-> Z, X0_t |-> Z,
                               X1_t |-> Z, X2_t |-> Z, Z_t |-> Z, W_t |-> Z],
                      !.runtime = [n \in 1 .. f.max_iter |-> 0],
                      !.kkt_residual = [n \in 1 .. f.max_iter |-> 0]])

\* line 58: for iter_t in np.arange(max_iter)
LAT_ForLoop(h, f) ==
  IF LoopContinues(f.iter_t, f.max_iter)
  THEN Res(h, [f EXCEPT !.pc = "body", !.iter_t = f.iter_t + 1])
  ELSE Res(h, [f EXCEPT !.pc = "after"])

\* lines 60-78: the R, Theta, Z and W steps; L_t and the duals are not updated
LAT_Iterate(h, f) ==
  LET S == h[f.arg.S]
      t == f.lat
      A_t == TAdd(TSub(t.Theta_t, t.L_t), t.X0_t)
      V_t == [k \in DOMAIN S |->
                MSub(MScale(SC \div 2, MAdd(A_t[k], MT(A_t[k]))), MScale(FDiv(SC, f.rho), S[k]))]
      R_t == [k \in DOMAIN S |-> phiplus(V_t[k], FDiv(SC, f.rho))]
      B_t == THalf(TSub(TAdd(TSub(TAdd(R_t, t.L_t), t.X0_t), t.Z_t), t.X1_t))
      Theta_t == [k \in DOMAIN S |->
                    prox_od_1norm(B_t[k], FDiv(f.arg.lambda1.v[0], 2 * f.rho))]
      Z_t == prox_od_2norm(TAdd(Theta_t, t.X1_t), FDiv(f.arg.lambda2, f.rho))
      W_t == prox_od_2norm(TAdd(t.L_t, t.X2_t), FDiv(f.arg.mu2, f.rho))
  IN Res(h, [f EXCEPT !.pc = "loop", !.nupd = f.nupd + 1,
                      !.lat = [t EXCEPT !.R_t = R_t, !.Theta_t = Theta_t,
                                        !.Z_t = Z_t, !.W_t = W_t]])

\* line 83: return (None)
LAT_Return(h, f) == Res(h, [f EXCEPT !.pc = "done"])

(***************************************************************************)
(* The state: the heap shared by the caller and the invocations, and one   *)
(* frame (the local variables and the position) per invocation.            *)
(* alone_heap[i] and alone_frame[i] are the heap and the frame of          *)
(* invocation i run by itself on the caller's objects as they were at the  *)
(* call: every step of invocation i is also taken there.                   *)
(***************************************************************************)
VARIABLES heap, frame, heap0, alone_heap, alone_frame, steps

vars == <<heap, frame, heap0, alone_heap, alone_frame, steps>>

NoSol == [Omega |-> Null, Theta |-> Null, X |-> Null, X0 |-> Null, X1 |-> Null]

NoInfo == [status |-> "", measured |-> FALSE, runtime |-> <<>>, kkt_residual |-> <<>>]

\* the frame of invocation i at the call: nothing is assigned yet.  nevals, nupd
\* and fresh record the history: the stopping-criterion evaluations started, the
\* iterations completed, and whether the iterate changed since the last evaluation
Frame0(i, arg) ==
  [id |-> i, arg |-> arg, pc |-> "start", exc |-> "", next |-> 1,
   K |-> 0, p |-> <<>>, lam1 |-> <<>>, max_iter |-> 0, rho |-> 0, nk |-> <<>>,
   status |-> "", Omega_t |-> Null, Theta_t |-> Null, X_t |-> Null,
   Lambda_t |-> Null, Z_t |-> Null, X0_t |-> Null, X1_t |-> Null,
   iter_t |-> Unbound, eta_A |-> Unbound, runtime |-> <<>>, kkt_residual |-> <<>>,
   sol |-> NoSol, info |-> NoInfo, self |-> NoSelf, pg |-> NoPG, lat |-> NoLat,
   \* history: the evaluations and updates made, whether the iterate was updated
   \* since its last evaluation, the iterate's values at the last evaluation
   nevals |-> 0, nupd |-> 0, fresh |-> FALSE, prev |-> <<>>]

Invocations == DOMAIN frame

\* invocation i takes the step F, in the shared heap and by itself
Apply(i, F(_, _)) ==
  /\ heap' = F(heap, frame[i]).h
  /\ frame' = [frame EXCEPT ![i] = F(heap, frame[i]).f]
  /\ alone_heap' = [alone_heap EXCEPT ![i] = F(alone_heap[i], alone_frame[i]).h]
  /\ alone_frame' = [alone_frame EXCEPT ![i] = F(alone_heap[i], alone_frame[i]).f]
  /\ steps' = [steps EXCEPT ![i] = steps[i] + 1]
  /\ UNCHANGED heap0

At_(i, solver, pc) == frame[i].arg.solver = solver /\ frame[i].pc = pc

MGL_DoValidate(i) == At_(i, "ADMM_MGL", "start") /\ Apply(i, MGL_Validate)

MGL_DoInitialize(i) == At_(i, "ADMM_MGL", "init") /\ Apply(i, MGL_Initialize)

MGL_DoForLoop(i) == At_(i, "ADMM_MGL", "loop") /\ Apply(i, ForLoop)

MGL_DoEvaluate(i) == At_(i, "ADMM_MGL", "eval") /\ Apply(i, MGL_Evaluate)

MGL_DoOmega(i) == At_(i, "ADMM_MGL", "omega") /\ Apply(i, MGL_OmegaStep)

MGL_DoTheta(i) == At_(i, "ADMM_MGL", "theta") /\ Apply(i, MGL_ThetaStep)

MGL_DoDual(i) == At_(i, "ADMM_MGL", "dual") /\ Apply(i, MGL_DualStep)

MGL_DoFinish(i) == At_(i, "ADMM_MGL", "after") /\ Apply(i, MGL_Finish)

EXT_DoValidate(i) == At_(i, "ext_ADMM_MGL", "start") /\ Apply(i, EXT_Validate)

EXT_DoInitialize(i) == At_(i, "ext_ADMM_MGL", "init") /\ Apply(i, EXT_Initialize)

EXT_DoForLoop(i) == At_(i, "ext_ADMM_MGL", "loop") /\ Apply(i, ForLoop)

EXT_DoEvaluate(i) == At_(i, "ext_ADMM_MGL", "eval") /\ Apply(i, EXT_Evaluate)

EXT_DoOmega(i) == At_(i, "ext_ADMM_MGL", "omega") /\ Apply(i, EXT_OmegaStep)

EXT_DoTheta(i) == At_(i, "ext_ADMM_MGL", "theta") /\ Apply(i, EXT_ThetaStep)

EXT_DoLambda(i) == At_(i, "ext_ADMM_MGL", "lambda") /\ Apply(i, EXT_LambdaStep)

EXT_DoDual(i) == At_(i, "ext_ADMM_MGL", "dual") /\ Apply(i, EXT_DualStep)

EXT_DoFinish(i) == At_(i, "ext_ADMM_MGL", "after") /\ Apply(i, EXT_Finish)

PROB_DoConstruct(i) == At_(i, "glasso_problem", "start") /\ Apply(i, PROB_Construct)

\* the caller sets the parameters again, as often as the scenario says
PROB_DoSetRegParams(i) ==
  /\ At_(i, "glasso_problem", "solve")
  /\ frame[i].self.nset < Len(frame[i].self.given.more)
  /\ Apply(i, PROB_SetRegParams)

PROB_DoSolve(i) ==
  /\ At_(i, "glasso_problem", "solve")
  /\ frame[i].self.nset = Len(frame[i].self.given.more)
  /\ Apply(i, PROB_Solve)

PROB_DoCollect(i) ==
  /\ frame[i].self.made /\ frame[i].pc = "done"
  /\ Apply(i, PROB_Collect)

Next ==
  \/ \E i \in Invocations : MGL_DoValidate(i)
  \/ \E i \in Invocations : MGL_DoInitialize(i)
  \/ \E i \in Invocations : MGL_DoForLoop(i)
  \/ \E i \in Invocations : MGL_DoEvaluate(i)
  \/ \E i \in Invocations : MGL_DoOmega(i)
  \/ \E i \in Invocations : MGL_DoTheta(i)
  \/ \E i \in Invocations : MGL_DoDual(i)
  \/ \E i \in Invocations : MGL_DoFinish(i)
  \/ \E i \in Invocations : EXT_DoValidate(i)
  \/ \E i \in Invocations : EXT_DoInitialize(i)
  \/ \E i \in Invocations : EXT_DoForLoop(i)
  \/ \E i \in Invocations : EXT_DoEvaluate(i)
  \/ \E i \in Invocations : EXT_DoOmega(i)
  \/ \E i \in Invocations : EXT_DoTheta(i)
  \/ \E i \in Invocations : EXT_DoLambda(i)
  \/ \E i \in Invocations : EXT_DoDual(i)
  \/ \E i \in Invocations : EXT_DoFinish(i)

PG_DoCheck(i) == At_(i, "prox_2norm_G", "start") /\ Apply(i, PG_Check)

PG_DoCopy(i) == At_(i, "prox_2norm_G", "copy") /\ Apply(i, PG_Copy)

PG_DoGroup(i) ==
  /\ At_(i, "prox_2norm_G", "loop") /\ frame[i].pg.l < heap[frame[i].arg.G].L
  /\ Apply(i, PG_Group)

PG_DoReturn(i) ==
  /\ At_(i, "prox_2norm_G", "loop") /\ frame[i].pg.l >= heap[frame[i].arg.G].L
  /\ Apply(i, PG_Return)

\* the steps of a call of prox_2norm_G
NextProx ==
  \/ \E i \in Invocations : PG_DoCheck(i)
  \/ \E i \in Invocations : PG_DoCopy(i)
  \/ \E i \in Invocations : PG_DoGroup(i)
  \/ \E i \in Invocations : PG_DoReturn(i)

\* the steps of a solver, and of a glasso_problem that is constructed and solved
NextProblem ==
  \/ Next
  \/ \E i \in Invocations : PROB_DoConstruct(i)
  \/ \E i \in Invocations : PROB_DoSetRegParams(i)
  \/ \E i \in Invocations : PROB_DoSolve(i)
  \/ \E i \in Invocations : PROB_DoCollect(i)

LAT_DoValidate(i) == At_(i, "latent_ADMM_GGL", "start") /\ Apply(i, LAT_Validate)

LAT_DoInitialize(i) == At_(i, "latent_ADMM_GGL", "init") /\ Apply(i, LAT_Initialize)

LAT_DoForLoop(i) == At_(i, "latent_ADMM_GGL", "loop") /\ Apply(i, LAT_ForLoop)

LAT_DoIterate(i) == At_(i, "latent_ADMM_GGL", "body") /\ Apply(i, LAT_Iterate)

LAT_DoReturn(i) == At_(i, "latent_ADMM_GGL", "after") /\ Apply(i, LAT_Return)

\* the steps of the three solvers
NextSolvers ==
  \/ Next
  \/ \E i \in Invocations : LAT_DoValidate(i)
  \/ \E i \in Invocations : LAT_DoInitialize(i)
  \/ \E i \in Invocations : LAT_DoForLoop(i)
  \/ \E i \in Invocations : LAT_DoIterate(i)
  \/ \E i \in Invocations : LAT_DoReturn(i)

(***************************************************************************)
(* The calls that are checked                                              *)
(***************************************************************************)
\* the largest iteration budget max_iter passed through kwargs
MaxIterBound == 3

M1(a) == Mat(1, 1, [ij \in Idx(1, 1) |-> a])

\* the symmetric matrix ((a, b), (b, d))
M2(a, b, d) ==
  Mat(2, 2, [ij \in Idx(2, 2) |->
               IF ij = <<0, 0>> THEN a ELSE IF ij = <<1, 1>> THEN d ELSE b])

\* an r x c matrix of ones
Ones(r, c) == Mat(r, c, [ij \in Idx(r, c) |-> SC])

Both(m) == [k \in 0 .. 1 |-> m]

Corr(k) == IF k = 0 THEN M2(SC, SC \div 2, SC) ELSE M2(SC, -((3 * SC) \div 10), SC)

Scalar(kind, x) == [kind |-> kind, v |-> [k \in {0} |-> x]]

Vector(v) == [kind |-> "vector", v |-> v]

\* n_samples as an array with one sample size per instance
SampleSizes(n) == [kind |-> "array", v |-> n]

Kw(has_max_iter, max_iter, has_rho, rho) ==
  [has_max_iter |-> has_max_iter, max_iter |-> max_iter, has_rho |-> has_rho, rho |-> rho]

\* the arguments besides the data; eps_admm, measure and max_iter are varied
Params(max_iter, eps_admm, measure) ==
  [lambda1 |-> Scalar("float", SC \div 10), lambda2 |-> SC \div 10, reg |-> "GGL",
   n_samples |-> Scalar("None", 0), eps_admm |-> eps_admm, measure |-> measure,
   kw |-> Kw(TRUE, max_iter, FALSE, 0)]

EpsSet == {SC \div 50, SC \div 10}

\* ---- ADMM_MGL: S and Omega_0 are 3d arrays --------------------------------
MGLData(S, Omega_0) ==
  [solver |-> "ADMM_MGL", heap |-> (<<0, 1>> :> S) @@ (<<0, 2>> :> Omega_0),
   S |-> <<0, 1>>, Omega_0 |-> <<0, 2>>, G |-> Null, Theta_0 |-> Null, X_0 |-> Null]

\* a warm start: Theta_0 and X_0 are given
MGLWarm(S, Omega_0, Theta_0, X_0) ==
  [solver |-> "ADMM_MGL",
   heap |-> (<<0, 1>> :> S) @@ (<<0, 2>> :> Omega_0) @@ (<<0, 4>> :> Theta_0)
              @@ (<<0, 5>> :> X_0),
   S |-> <<0, 1>>, Omega_0 |-> <<0, 2>>, G |-> Null, Theta_0 |-> <<0, 4>>, X_0 |-> <<0, 5>>]

MGLValidData ==
  { MGLData(Both(M1(SC)), Both(M1(SC))),
    MGLData(Both(M1(2 * SC)), Both(M1(SC))),
    MGLData(Both(M1(SC \div 2)), Both(M1(SC))),
    MGLData([k \in 0 .. 1 |-> Corr(k)], Both(Eye(2))),
    MGLWarm(Both(M1(2 * SC)), Both(M1(SC)), Both(M1((6 * SC) \div 10)),
            Both(M1(SC \div 10))) }

\* Omega_0 of another shape than S; S not square
MGLBadData ==
  { MGLData(Both(M1(SC)), Both(Eye(2))),
    MGLData(Both(Eye(2)), Both(M1(SC))),
    MGLData(Both(Ones(1, 2)), Both(Ones(1, 2))),
    MGLData(Both(Ones(2, 1)), Both(Ones(2, 1))) }

\* ---- ext_ADMM_MGL: S and Omega_0 are dicts, G is the index array ----------
DictHeap(d, base, vals) ==
  (d :> [k \in DOMAIN vals |-> <<0, base + k>>])
    @@ [x \in {<<0, base + k>> : k \in DOMAIN vals} |-> vals[x[2] - base]]

EXTData(S, Omega_0, G) ==
  [solver |-> "ext_ADMM_MGL",
   heap |-> DictHeap(<<0, 1>>, 10, S) @@ DictHeap(<<0, 2>>, 20, Omega_0) @@ (<<0, 3>> :> G),
   S |-> <<0, 1>>, Omega_0 |-> <<0, 2>>, G |-> <<0, 3>>, Theta_0 |-> Null, X_0 |-> Null]

\* one group: coordinate c0 of instance 0 and c1 of instance 1 (<<-1, -1>>: absent)
G1(c0, c1) ==
  GArray(2, 1, 2, [xlk \in (0 .. 1) \X {0} \X (0 .. 1) |->
                     IF xlk[3] = 0 THEN c0[xlk[1] + 1] ELSE c1[xlk[1] + 1]])

\* two groups
G2(c0, c1, e0, e1) ==
  GArray(2, 2, 2, [xlk \in (0 .. 1) \X (0 .. 1) \X (0 .. 1) |->
                     IF xlk[2] = 0
                     THEN (IF xlk[3] = 0 THEN c0[xlk[1] + 1] ELSE c1[xlk[1] + 1])
                     ELSE (IF xlk[3] = 0 THEN e0[xlk[1] + 1] ELSE e1[xlk[1] + 1])])

EXTValidData ==
  { EXTData(Both(Eye(2)), Both(Eye(2)), G1(<<1, 0>>, <<1, 0>>)),
    EXTData([k \in 0 .. 1 |-> Corr(k)], Both(Eye(2)), G1(<<1, 0>>, <<1, 0>>)),
    EXTData([k \in 0 .. 1 |-> Corr(k)], [k \in 0 .. 1 |-> M2(SC, SC \div 5, SC)],
            G1(<<1, 0>>, <<0, 1>>)),
    EXTData([k \in 0 .. 1 |-> IF k = 0 THEN M1(2 * SC) ELSE Corr(0)],
            [k \in 0 .. 1 |-> Eye(k + 1)], G1(<<-1, -1>>, <<1, 0>>)) }

\* Omega_0[0] of another shape than S[0]; S[0] not square
EXTBadShape ==
  { EXTData([k \in 0 .. 1 |-> Corr(k)], [k \in 0 .. 1 |-> Eye(k + 1)], G1(<<1, 0>>, <<1, 0>>)),
    EXTData([k \in 0 .. 1 |-> IF k = 0 THEN M1(2 * SC) ELSE Corr(0)], Both(Eye(2)),
            G1(<<-1, -1>>, <<1, 0>>)),
    EXTData([k \in 0 .. 1 |-> IF k = 0 THEN Ones(1, 2) ELSE Corr(0)],
            [k \in 0 .. 1 |-> Eye(k + 1)], G1(<<-1, -1>>, <<1, 0>>)),
    EXTData([k \in 0 .. 1 |-> IF k = 0 THEN Ones(2, 1) ELSE Corr(0)], Both(Eye(2)),
            G1(<<1, 0>>, <<1, 0>>)) }

\* a G check_G rejects: a coordinate outside the matrix, one coordinate in two
\* groups, a G for three instances
EXTBadG ==
  { EXTData(Both(Eye(2)), Both(Eye(2)), G1(<<2, 0>>, <<1, 0>>)),
    EXTData(Both(Eye(2)), Both(Eye(2)), G2(<<1, 0>>, <<1, 0>>, <<0, 1>>, <<-1, -1>>)),
    EXTData(Both(Eye(2)), Both(Eye(2)),
            GArray(2, 1, 3, [xlk \in (0 .. 1) \X {0} \X (0 .. 2) |-> 1 - xlk[1]])) }

\* ---- input that is not symmetric -------------------------------------------
\* the matrix ((a, b), (c, d))
M22(a, b, c, d) ==
  Mat(2, 2, [ij \in Idx(2, 2) |->
               IF ij = <<0, 0>> THEN a ELSE IF ij = <<0, 1>> THEN b
               ELSE IF ij = <<1, 0>> THEN c ELSE d])

\* a covariance and a starting point with unequal entries off the diagonal
AsymS == M22(SC, SC \div 2, SC \div 5, SC)

AsymOmega == M22(SC, SC \div 5, 0, SC)

MGLAsymData ==
  { MGLData([k \in 0 .. 1 |-> IF k = 0 THEN AsymS ELSE Corr(1)], Both(Eye(2))),
    MGLData([k \in 0 .. 1 |-> Corr(k)], [k \in 0 .. 1 |-> IF k = 1 THEN AsymOmega ELSE Eye(2)]),
    MGLWarm([k \in 0 .. 1 |-> Corr(k)], Both(Eye(2)),
            [k \in 0 .. 1 |-> IF k = 0 THEN AsymOmega ELSE Eye(2)], Both(Zeros(2, 2))) }

EXTAsymData ==
  { EXTData([k \in 0 .. 1 |-> IF k = 0 THEN AsymS ELSE Corr(1)], Both(Eye(2)),
            G1(<<1, 0>>, <<1, 0>>)),
    EXTData([k \in 0 .. 1 |-> Corr(k)], [k \in 0 .. 1 |-> IF k = 1 THEN AsymOmega ELSE Eye(2)],
            G1(<<1, 0>>, <<1, 0>>)) }

\* the call of a solver on data d with the arguments P
Call(d, P) ==
  [solver |-> d.solver, S |-> d.S, Omega_0 |-> d.Omega_0, G |-> d.G,
   Theta_0 |-> d.Theta_0, X_0 |-> d.X_0,
   lambda1 |-> P.lambda1, lambda2 |-> P.lambda2, reg |-> P.reg, n_samples |-> P.n_samples,
   eps_admm |-> P.eps_admm, measure |-> P.measure, kw |-> P.kw]

BaseP == Params(2, SC \div 50, TRUE)

\* arguments that differ from BaseP in one place and are valid for both solvers
ValidVariants ==
  { [BaseP EXCEPT !.kw = Kw(TRUE, 2, TRUE, SC)],
    [BaseP EXCEPT !.kw = Kw(TRUE, 2, TRUE, 2 * SC)],
    [BaseP EXCEPT !.lambda2 = SC \div 2] }

\* one precondition violated
BadVariants ==
  { [BaseP EXCEPT !.lambda1 = Scalar("float", 0)],
    [BaseP EXCEPT !.lambda2 = 0],
    [BaseP EXCEPT !.lambda2 = -SC],
    [BaseP EXCEPT !.reg = "XGL"],
    [BaseP EXCEPT !.kw = Kw(TRUE, 2, TRUE, 0)],
    [BaseP EXCEPT !.kw = Kw(TRUE, 2, TRUE, -SC)] }

Single(d, P) == [heap |-> d.heap, calls |-> <<Call(d, P)>>]

Pair(d, P, Q) == [heap |-> d.heap, calls |-> <<Call(d, P), Call(d, Q)>>]

MGLSingles ==
  {Single(d, Params(m, e, b)) :
      d \in MGLValidData, m \in 0 .. MaxIterBound, e \in EpsSet, b \in BOOLEAN}
  \cup {Single(d, P) : d \in MGLValidData,
          P \in ValidVariants \cup
                {[BaseP EXCEPT !.reg = "FGL"],
                 [BaseP EXCEPT !.n_samples = Scalar("int", 2)]}}
  \cup {Single(d, P) : d \in {MGLData(Both(M1(SC)), Both(M1(SC)))},
          P \in {[BaseP EXCEPT !.kw = Kw(FALSE, 0, FALSE, 0)]}}
  \cup {Single(d, BaseP) : d \in MGLBadData}
  \cup {Single(d, P) : d \in {MGLData([k \in 0 .. 1 |-> Corr(k)], Both(Eye(2)))},
          P \in BadVariants \cup {[BaseP EXCEPT !.n_samples = SampleSizes([k \in 0 .. 1 |-> k + 1])]}}

EXTSingles ==
  {Single(d, Params(m, e, b)) :
      d \in EXTValidData, m \in 0 .. MaxIterBound, e \in EpsSet, b \in BOOLEAN}
  \cup {Single(d, P) : d \in EXTValidData,
          P \in ValidVariants \cup
                {[BaseP EXCEPT !.lambda1 = Vector([k \in 0 .. 1 |-> (k + 1) * (SC \div 10)])]}}
  \cup {Single(d, P) : d \in {EXTData(Both(Eye(2)), Both(Eye(2)), G1(<<1, 0>>, <<1, 0>>))},
          P \in {[BaseP EXCEPT !.kw = Kw(FALSE, 0, FALSE, 0)]}}
  \cup {Single(d, BaseP) : d \in EXTBadShape \cup EXTBadG}
  \cup {Single(d, P) :
          d \in {EXTData([k \in 0 .. 1 |-> Corr(k)], Both(Eye(2)), G1(<<1, 0>>, <<1, 0>>))},
          P \in BadVariants \cup
                {[BaseP EXCEPT !.reg = "FGL"],
                 [BaseP EXCEPT !.lambda1 = Scalar("int", 1)],
                 [BaseP EXCEPT !.lambda1 = Vector([k \in 0 .. 1 |-> k * (SC \div 10)])]}}

\* calls with input that is not symmetric; with eps_admm = 2 the starting point
\* passes the stopping criterion at once
AsymSingles ==
  {Single(d, Params(m, e, TRUE)) :
      d \in MGLAsymData \cup EXTAsymData, m \in 0 .. 2, e \in {SC \div 50, 2 * SC}}

\* ---- glasso_problem(S, ...) followed by solve(Omega_0, solver_params, tol) ---
SolverParams(has_max_iter, max_iter, has_rho, rho, has_measure, measure) ==
  [has_max_iter |-> has_max_iter, max_iter |-> max_iter, has_rho |-> has_rho, rho |-> rho,
   has_measure |-> has_measure, measure |-> measure]

RegParams(lambda1, lambda2) ==
  ("lambda1" :> Scalar("float", lambda1)) @@ ("lambda2" :> lambda2)

\* d: the caller's objects (S, G and, where a starting point is passed, Omega_0)
PCall(d, S_type, start, reg, reg_params, do_scaling, solver_params, tol) ==
  [solver |-> "glasso_problem", S_type |-> S_type, S |-> d.S, G |-> d.G,
   Omega_0 |-> IF start THEN d.Omega_0 ELSE Null,
   reg |-> reg, reg_params |-> reg_params, do_scaling |-> do_scaling,
   solver_params |-> solver_params, tol |-> tol,
   ndim |-> 3, latent |-> FALSE, more |-> <<>>]

PSingle(d, S_type, start, reg, reg_params, do_scaling, solver_params, tol) ==
  [heap |-> d.heap,
   calls |-> <<PCall(d, S_type, start, reg, reg_params, do_scaling, solver_params, tol)>>]

PROBSingles ==
  {PSingle(d, "ndarray", start, "GGL", RegParams(SC \div 10, SC \div 10), sc,
           SolverParams(TRUE, m, FALSE, 0, TRUE, TRUE), tol) :
      d \in {MGLData([k \in 0 .. 1 |-> Corr(k)], Both(Eye(2))),
             MGLData(Both(M1(SC \div 2)), Both(M1(SC))),
             MGLData(Both(M2(2 * SC, SC, 2 * SC)), Both(Eye(2)))} \cup MGLAsymData,
      start \in BOOLEAN, sc \in BOOLEAN, m \in 0 .. MaxIterBound, tol \in EpsSet}
  \cup
  {PSingle(d, "dict", start, "GGL", RegParams(SC \div 10, SC \div 10), sc,
           SolverParams(TRUE, m, FALSE, 0, TRUE, TRUE), tol) :
      d \in {EXTData([k \in 0 .. 1 |-> Corr(k)], Both(Eye(2)), G1(<<1, 0>>, <<1, 0>>)),
             EXTData([k \in 0 .. 1 |-> IF k = 0 THEN M1(2 * SC) ELSE Corr(0)],
                     [k \in 0 .. 1 |-> Eye(k + 1)], G1(<<-1, -1>>, <<1, 0>>))}
           \cup EXTAsymData,
      start \in BOOLEAN, sc \in BOOLEAN, m \in 0 .. 2, tol \in EpsSet}
  \cup
  {PSingle(d, S_type, TRUE, reg, rp, FALSE, sp, SC \div 10) :
      d \in {MGLData([k \in 0 .. 1 |-> Corr(k)], Both(Eye(2)))}, S_type \in {"ndarray"},
      reg \in {"GGL", "FGL", "XGL"},
      rp \in {<<>>, RegParams(SC \div 5, SC \div 10)},
      sp \in {SolverParams(TRUE, 2, TRUE, 2 * SC, FALSE, FALSE),
              SolverParams(TRUE, 1, FALSE, 0, TRUE, FALSE)}}
  \cup
  {PSingle(d, "dict", TRUE, reg, RegParams(SC \div 10, SC \div 10), FALSE,
           SolverParams(TRUE, 1, FALSE, 0, FALSE, FALSE), SC \div 10) :
      d \in EXTBadG \cup {EXTData(Both(Eye(2)), Both(Eye(2)), G1(<<1, 0>>, <<1, 0>>))},
      reg \in {"GGL", "FGL"}}

\* ---- the variants of a problem: type and axes of S, latent, set_reg_params ---
\* a single covariance matrix and a starting point
SGLData(S, Omega_0) ==
  [heap |-> (<<0, 1>> :> S) @@ (<<0, 2>> :> Omega_0), S |-> <<0, 1>>, Omega_0 |-> <<0, 2>>,
   G |-> Null]

\* an argument of set_reg_params
RegArg(kind, d) == [kind |-> kind, d |-> d]

\* the scenario s with S of ndim axes, the flag latent and later set_reg_params calls
Variant(s, ndim, latent, more) ==
  [s EXCEPT !.calls = <<[s.calls[1] EXCEPT !.ndim = ndim, !.latent = latent,
                                           !.more = more]>>]

Sp1 == SolverParams(TRUE, 1, FALSE, 0, FALSE, FALSE)

ExtPair == EXTData([k \in 0 .. 1 |-> Corr(k)], Both(Eye(2)), G1(<<1, 0>>, <<1, 0>>))

MglPair == MGLData([k \in 0 .. 1 |-> Corr(k)], Both(Eye(2)))

RegArgs ==
  {RegArg("None", <<>>), RegArg("dict", <<>>), RegArg("list", <<>>),
   RegArg("dict", "lambda1" :> Scalar("float", SC \div 4)),
   RegArg("dict", "lambda2" :> SC \div 2),
   RegArg("dict", ("lambda1" :> Scalar("float", SC \div 5)) @@ ("mu1" :> Vector(Both(SC))))}

PROBVariants ==
  \* a 2d array: one matrix
  {Variant(PSingle(d, "ndarray", start, reg, rp, sc, Sp1, SC \div 10), 2, latent, <<>>) :
      d \in {SGLData(Corr(0), Eye(2)), SGLData(AsymS, Eye(2)), SGLData(Ones(1, 2), Eye(2))},
      start \in BOOLEAN, reg \in {"GGL", "XGL"},
      rp \in {<<>>, "lambda1" :> Scalar("float", SC \div 5)}, sc \in BOOLEAN,
      latent \in BOOLEAN}
  \cup
  \* an array with one axis or with four
  {Variant(PSingle(MglPair, "ndarray", TRUE, "GGL", <<>>, FALSE, Sp1, SC \div 10),
           ndim, FALSE, <<>>) : ndim \in {1, 4}}
  \cup
  \* S of another type; a list; a dict with one entry; no G
  {PSingle(d, S_type, TRUE, "GGL", <<>>, FALSE, Sp1, SC \div 10) :
      d \in {ExtPair, [ExtPair EXCEPT !.G = Null],
             EXTData([k \in 0 .. 0 |-> Corr(0)], [k \in 0 .. 0 |-> Eye(2)],
                     G1(<<1, 0>>, <<1, 0>>))},
      S_type \in {"list", "dict", "tuple", "NoneType", "DataFrame"}}
  \cup
  \* latent = True on a multiple problem
  {Variant(PSingle(d.d, d.t, start, "GGL", rp, sc, Sp1, SC \div 10), 3, TRUE, <<>>) :
      d \in {[d |-> MglPair, t |-> "ndarray"], [d |-> ExtPair, t |-> "dict"]},
      start \in BOOLEAN, sc \in BOOLEAN,
      rp \in {<<>>, "mu1" :> Vector(Both(SC \div 5))}}
  \cup
  \* set_reg_params called once or twice after the construction
  {Variant(PSingle(MglPair, "ndarray", TRUE, "GGL", rp, FALSE, Sp1, SC \div 10),
           3, latent, more) :
      rp \in {<<>>, RegParams(SC \div 10, SC \div 5)}, latent \in BOOLEAN,
      more \in {<<x>> : x \in RegArgs} \cup {<<x, y>> : x \in RegArgs, y \in RegArgs}}
  \cup
  {Variant(PSingle(SGLData(Corr(0), Eye(2)), "ndarray", TRUE, "GGL", <<>>, FALSE, Sp1,
                   SC \div 10), 2, latent, <<x>>) :
      latent \in BOOLEAN, x \in RegArgs}

\* ---- prox_2norm_G(X, G, l2) on a dict X of the caller ------------------------
PGData(X, G) == [heap |-> DictHeap(<<0, 1>>, 10, X) @@ (<<0, 3>> :> G), X |-> <<0, 1>>,
                 G |-> <<0, 3>>]

PGSingle(d, l2, again) ==
  [heap |-> d.heap,
   calls |-> <<[solver |-> "prox_2norm_G", X |-> d.X, G |-> d.G, l2 |-> l2,
                again |-> again]>>]

\* symmetric dicts: two 2 x 2 matrices, or a 1 x 1 and a 2 x 2 matrix
PGSymX ==
  { [k \in 0 .. 1 |-> IF k = 0 THEN M2(SC, (3 * SC) \div 10, 2 * SC)
                               ELSE M2(SC, -((4 * SC) \div 10), SC)],
    [k \in 0 .. 1 |-> IF k = 0 THEN M2(SC, SC \div 20, -SC) ELSE M2(0, SC \div 20, SC)],
    [k \in 0 .. 1 |-> IF k = 0 THEN M2(SC, 0, SC) ELSE M2(SC, 0, SC)],
    [k \in 0 .. 1 |-> IF k = 0 THEN M1(2 * SC) ELSE M2(SC, SC \div 2, (3 * SC) \div 2)] }

\* dicts with a matrix that is not symmetric
PGAsymX ==
  { [k \in 0 .. 1 |-> IF k = 0 THEN AsymOmega ELSE Eye(2)],
    [k \in 0 .. 1 |-> IF k = 1 THEN AsymS ELSE M2(SC, SC \div 2, SC)] }

\* group maps check_G accepts for two 2 x 2 matrices: no coordinate of an
\* instance, mirrored or not, in two groups
PGGoodG ==
  { G1(<<1, 0>>, <<1, 0>>), G1(<<1, 0>>, <<0, 1>>), G1(<<0, 1>>, <<-1, -1>>),
    G1(<<-1, -1>>, <<-1, -1>>), G1(<<1, 1>>, <<1, 0>>),
    G2(<<1, 0>>, <<1, 0>>, <<0, 0>>, <<1, 1>>),
    G2(<<1, 0>>, <<-1, -1>>, <<-1, -1>>, <<0, 1>>),
    G2(<<0, 0>>, <<1, 0>>, <<1, 0>>, <<-1, -1>>) }

\* group maps with valid coordinates that use an entry of an instance twice:
\* (1,0) and (0,1) of instance 0 in two groups, (1,0) of instance 1 in two groups
PGOverlapG ==
  { G2(<<1, 0>>, <<1, 0>>, <<0, 1>>, <<-1, -1>>),
    G2(<<1, 0>>, <<1, 0>>, <<0, 0>>, <<1, 0>>) }

\* group maps of a wrong shape: first dimension 3, last dimension 3 or 1
PGBadShapeG ==
  { GArray(3, 1, 2, [xlk \in (0 .. 2) \X {0} \X (0 .. 1) |-> 0]),
    GArray(2, 1, 3, [xlk \in (0 .. 1) \X {0} \X (0 .. 2) |-> 1 - xlk[1]]),
    GArray(2, 1, 1, [xlk \in (0 .. 1) \X {0} \X {0} |-> 1 - xlk[1]]) }

PGScale == {SC \div 10, SC \div 2}

PGSingles ==
  {PGSingle(PGData(X, G), l2, again) :
      X \in {x \in PGSymX : x[0].r = 2}, G \in PGGoodG \cup PGOverlapG,
      l2 \in PGScale, again \in BOOLEAN}
  \cup {PGSingle(PGData(X, G), l2, again) :
          X \in {x \in PGSymX : x[0].r = 1},
          G \in {G1(<<0, 0>>, <<1, 0>>), G1(<<-1, -1>>, <<1, 0>>), G1(<<1, 0>>, <<1, 0>>),
                 G2(<<-1, -1>>, <<0, 1>>, <<0, 0>>, <<1, 1>>)},
          l2 \in PGScale, again \in BOOLEAN}
  \cup {PGSingle(PGData(X, G), l2, FALSE) :
          X \in PGAsymX, G \in {G1(<<1, 0>>, <<1, 0>>), G1(<<-1, -1>>, <<-1, -1>>)},
          l2 \in PGScale}
  \cup {PGSingle(PGData(X, G), l2, FALSE) :
          X \in PGSymX \cup PGAsymX, G \in {G1(<<1, 0>>, <<1, 0>>)}, l2 \in {0, -SC}}
  \cup {PGSingle(PGData(X, G), SC \div 10, FALSE) : X \in PGSymX \cup PGAsymX, G \in PGBadShapeG}

\* two calls on the same objects S, G, Omega_0: two points of a regularisation grid
Pairs ==
  {Pair(d, Params(m, SC \div 50, TRUE), [Params(n, SC \div 10, FALSE) EXCEPT !.lambda1 =
                                           Scalar("float", SC \div 5)]) :
      d \in {MGLData(Both(M1(2 * SC)), Both(M1(SC))),
             MGLData([k \in 0 .. 1 |-> Corr(k)], Both(Eye(2))),
             EXTData([k \in 0 .. 1 |-> Corr(k)], Both(Eye(2)), G1(<<1, 0>>, <<1, 0>>)),
             EXTData([k \in 0 .. 1 |-> IF k = 0 THEN M1(2 * SC) ELSE Corr(0)],
                     [k \in 0 .. 1 |-> Eye(k + 1)], G1(<<-1, -1>>, <<1, 0>>))},
      m \in 1 .. 2, n \in 0 .. 2}

\* ---- latent_ADMM_GGL(S, lambda1, lambda2, mu1, mu2, R_0, ..., **kwargs) ------
LATData(S, R_0) == [heap |-> (<<0, 1>> :> S) @@ (<<0, 2>> :> R_0), S |-> <<0, 1>>, R_0 |-> <<0, 2>>]

LATSingle(d, n_samples, kw) ==
  [heap |-> d.heap,
   calls |-> <<[solver |-> "latent_ADMM_GGL", S |-> d.S, R_0 |-> d.R_0,
                lambda1 |-> Scalar("float", SC \div 10), lambda2 |-> SC \div 10,
                mu1 |-> SC \div 10, mu2 |-> SC \div 10, n_samples |-> n_samples,
                eps_admm |-> EpsAdmmDefault, measure |-> FALSE, kw |-> kw]>>]

\* with and without max_iter and rho in kwargs; a 2 x 2 problem; input that fails
\* an assertion
LATSingles ==
  {LATSingle(LATData(Both(M1(SC)), Both(M1(SC))), Scalar("None", 0), kw) :
      kw \in {Kw(FALSE, 0, FALSE, 0), Kw(TRUE, 2, FALSE, 0), Kw(TRUE, 2, TRUE, 2 * SC)}}
  \cup {LATSingle(LATData([k \in 0 .. 1 |-> Corr(k)], Both(Eye(2))), Scalar("int", 2),
                  Kw(TRUE, 1, TRUE, SC))}
  \cup {LATSingle(d, Scalar("None", 0), Kw(TRUE, 2, FALSE, 0)) :
          d \in {LATData(Both(Eye(2)), Both(M1(SC))), LATData(Both(Ones(1, 2)), Both(Ones(1, 2)))}}
  \cup {LATSingle(LATData(Both(M1(SC)), Both(M1(SC))),
                  SampleSizes([k \in 0 .. 1 |-> k + 1]), Kw(TRUE, 2, FALSE, 0))}

InitWith(Scenarios) ==
  \E sc \in Scenarios :
    /\ heap = sc.heap
    /\ heap0 = sc.heap
    /\ frame = [i \in 1 .. Len(sc.calls) |-> Frame0(i, sc.calls[i])]
    /\ alone_heap = [i \in 1 .. Len(sc.calls) |-> sc.heap]
    /\ alone_frame = [i \in 1 .. Len(sc.calls) |-> Frame0(i, sc.calls[i])]
    /\ steps = [i \in 1 .. Len(sc.calls) |-> 0]

\* one invocation
Init == InitWith(MGLSingles \cup EXTSingles \cup AsymSingles)

Spec == Init /\ [][Next]_vars

\* two invocations on the same data, their steps interleaved in any order
InitPar == InitWith(Pairs)

SpecPar == InitPar /\ [][Next]_vars

\* one glasso_problem constructed and solved, or one solver called directly on
\* input that is not symmetric
InitProblem == InitWith(PROBSingles \cup PROBVariants \cup AsymSingles)

SpecProblem == InitProblem /\ [][NextProblem]_vars

\* one call of prox_2norm_G, or two: the second on the result of the first
InitProx == InitWith(PGSingles)

SpecProx == InitProx /\ [][NextProx]_vars

\* one call of one of the three solvers
InitSolvers == InitWith(MGLSingles \cup EXTSingles \cup LATSingles)

SpecSolvers == InitSolvers /\ [][NextSolvers]_vars

(***************************************************************************)
(* Properties                                                              *)
(***************************************************************************)
Returned(i) == frame[i].pc = "done"

Raised(i) == frame[i].pc = "raised"

Terminated(i) == Returned(i) \/ Raised(i)

\* the places of a solver's body from which it takes a step
ControlPoints(solver) ==
  {"start", "init", "loop", "eval", "omega", "theta", "dual", "after"}
    \cup (IF solver = "ext_ADMM_MGL" THEN {"lambda"} ELSE {})

CallIds == {1, 2}

\* invocation i takes its next step
Step(i) ==
  /\ i \in Invocations
  /\ ~Terminated(i)
  /\ steps' = [steps EXCEPT ![i] = steps[i] + 1]

\* the interpreter runs an invocation that has not returned or raised
FairSpec == Spec /\ \A i \in CallIds : WF_steps(Step(i))

MatShape(A) == <<A.r, A.c>>

\* the preconditions of ADMM_MGL on the arguments a, the caller's objects in h;
\* n_samples is None or an integer, the two forms lines 46-49 take up (an array
\* does not get past line 46)
MGL_ValidArgs(a, h) ==
  LET S == h[a.S]
  IN /\ Shape3(h[a.Omega_0]) = Shape3(S)
     /\ \A k \in DOMAIN S : IsSquare(S[k]) /\ IsSymmetric(S[k]) /\ IsSymmetric(h[a.Omega_0][k])
     /\ a.Theta_0 # Null => Shape3(h[a.Theta_0]) = Shape3(S) /\ TSymmetric(h[a.Theta_0])
     /\ a.X_0 # Null => Shape3(h[a.X_0]) = Shape3(S) /\ TSymmetric(h[a.X_0])
     /\ a.reg \in {"GGL", "FGL"}
     /\ a.lambda1.kind = "float" /\ a.lambda1.v[0] > 0 /\ a.lambda2 > 0
     /\ a.kw.has_rho => a.kw.rho > 0
     /\ a.n_samples.kind \in {"None", "int"}
     /\ a.n_samples.kind = "int" => a.n_samples.v[0] > 0

\* the preconditions of ext_ADMM_MGL; lambda1 is a float or a vector, the two
\* forms lines 31-34 take up (a Python int does not get past line 34)
EXT_ValidArgs(a, h) ==
  LET S == DictVal(h, a.S)
      Omega_0 == DictVal(h, a.Omega_0)
  IN /\ DOMAIN Omega_0 = DOMAIN S
     /\ \A k \in DOMAIN S :
          /\ MatShape(Omega_0[k]) = MatShape(S[k])
          /\ IsSquare(S[k]) /\ IsSymmetric(S[k]) /\ IsSymmetric(Omega_0[k])
     /\ a.reg = "GGL"
     /\ a.lambda1.kind \in {"float", "vector"}
     /\ a.lambda1.kind = "vector" => DOMAIN a.lambda1.v = DOMAIN S
     /\ \A k \in DOMAIN a.lambda1.v : a.lambda1.v[k] > 0
     /\ a.lambda2 > 0
     /\ a.kw.has_rho => a.kw.rho > 0
     /\ check_G(h[a.G], [k \in DOMAIN S |-> S[k].r])

ValidCall(i) ==
  IF frame[i].arg.solver = "ADMM_MGL"
  THEN MGL_ValidArgs(frame[i].arg, heap0)
  ELSE EXT_ValidArgs(frame[i].arg, heap0)

\* the iteration budget of the call
Budget(i) == KwMaxIter(frame[i].arg.kw)

TerminalStatuses == {"optimal", "max iterations reached"}

\* one step of an invocation moves the loop index forward by one or leaves it
LinearStep(i) ==
  \/ frame'[i].iter_t = frame[i].iter_t
  \/ frame'[i].iter_t = frame[i].iter_t + 1 /\ frame'[i].nupd = frame[i].nupd

\* C1: a call with valid arguments and max_iter >= 1 raises nothing, makes at
\* most max_iter update steps, moves its loop index only forward and one at a
\* time (no iteration is repeated or retried), terminates, and returns a
\* status that is 'optimal' or 'max iterations reached'.
C1_SingleLinearPass ==
  /\ [](\A i \in Invocations : (ValidCall(i) /\ Budget(i) >= 1) =>
          /\ ~Raised(i)
          /\ frame[i].nupd <= Budget(i)
          /\ frame[i].nupd <= frame[i].iter_t + 1
          /\ ~Terminated(i) => frame[i].pc \in ControlPoints(frame[i].arg.solver)
          /\ Returned(i) => frame[i].info.status \in TerminalStatuses)
  /\ [][\A i \in Invocations : LinearStep(i)]_vars
  /\ <>(\A i \in Invocations : Terminated(i))

\* a valid call returned after using its whole budget of two or more iterations
C1_Witness ==
  \E i \in Invocations :
    /\ ValidCall(i) /\ Budget(i) >= 2 /\ Returned(i)
    /\ frame[i].nupd = Budget(i)
    /\ frame[i].info.status = "max iterations reached"

\* ---- the status and the residual ------------------------------------------
IsMGL(i) == frame[i].arg.solver = "ADMM_MGL"

IsEXT(i) == frame[i].arg.solver = "ext_ADMM_MGL"

\* the objects of the iterate of invocation i, as it stands
CurrentIterate(i) ==
  [Omega |-> frame[i].Omega_t, Theta |-> frame[i].Theta_t, X |-> frame[i].X_t,
   Lambda |-> frame[i].Lambda_t, X0 |-> frame[i].X0_t, X1 |-> frame[i].X1_t]

\* the objects returned in sol (ext_ADMM_MGL keeps Lambda to itself)
ReturnedIterate(i) ==
  [Omega |-> frame[i].sol.Omega, Theta |-> frame[i].sol.Theta, X |-> frame[i].sol.X,
   Lambda |-> frame[i].Lambda_t, X0 |-> frame[i].sol.X0, X1 |-> frame[i].sol.X1]

\* the stopping-criterion residual eta of the iterate it of invocation i
Residual(i, it) ==
  LET f == frame[i]
      a == f.arg
  IN IF IsMGL(i)
     THEN ADMM_stopping_criterion(heap[it.Omega], heap[it.Theta], heap[it.X], heap[a.S],
                                  a.lambda1.v[0], a.lambda2, f.nk, a.reg)
     ELSE ext_ADMM_stopping_criterion(DictVal(heap, it.Omega), DictVal(heap, it.Theta),
             DictVal(heap, it.Lambda), DictVal(heap, it.X0), DictVal(heap, it.X1),
             DictVal(heap, a.S), heap[a.G], f.lam1, a.lambda2).val

Exhausted(i) == frame[i].nupd = Budget(i)

\* C2: a valid call that returns reports 'optimal' exactly when the residual of
\* the iterate it returns is <= eps_admm, and 'max iterations reached' exactly
\* when it used up its budget and the residual of the iterate it returns is
\* > eps_admm.
C2_StatusDescribesReturnedIterate ==
  \A i \in Invocations : (ValidCall(i) /\ Returned(i)) =>
    LET eta == Residual(i, ReturnedIterate(i))
        eps == frame[i].arg.eps_admm
    IN /\ frame[i].info.status = "optimal" <=> eta <= eps
       /\ frame[i].info.status = "max iterations reached" <=> (Exhausted(i) /\ eta > eps)

\* C3: a valid call, whatever its budget max_iter >= 0, that has used up the
\* budget and ended with an iterate whose residual is above eps_admm has
\* returned, with status 'max iterations reached': it has raised nothing.
C3_ExhaustionIsReported ==
  \A i \in Invocations :
    (/\ ValidCall(i) /\ Budget(i) >= 0 /\ Terminated(i) /\ Exhausted(i)
     /\ frame[i].Omega_t # Null
     /\ Residual(i, CurrentIterate(i)) > frame[i].arg.eps_admm)
    => (Returned(i) /\ frame[i].info.status = "max iterations reached")

\* ---- the order of the steps of an iteration -------------------------------
\* the step of invocation i leaves pc, or moves it from one of `from` to `to`
Moves(i, from, to) ==
  frame[i].pc \in from => frame'[i].pc \in {frame[i].pc, to, "raised"}

\* X halved entry by entry
MHalf(A) == Mat(A.r, A.c, [ij \in Idx(A.r, A.c) |-> Quot(A.e[ij], 2)])

\* the iterate of ADMM_MGL after an iteration, against the iterate prev the
\* iteration started from
MGL_IterationFlow(i) ==
  LET f == frame[i]
      a == f.arg
      Ks == DOMAIN heap[a.S]
      Omega == heap[f.Omega_t]
      Theta == heap[f.Theta_t]
      beta(k) == FDiv(f.nk[k] * SC, f.rho)
  IN /\ Omega = [k \in Ks |->
                   phiplus(MSub(MSub(f.prev.Theta[k], f.prev.X[k]),
                                MScale(beta(k), heap[a.S][k])), beta(k))]
     /\ Theta = prox_p(TAdd(Omega, f.prev.X), FDiv(a.lambda1.v[0], f.rho),
                       FDiv(a.lambda2, f.rho), a.reg)
     /\ heap[f.X_t] = TSub(TAdd(f.prev.X, Omega), Theta)

\* C4: every iteration of ADMM_MGL runs Omega update, Theta update, dual update
\* in this order, each from the values the claim names, and the stopping
\* criterion is then evaluated on the updated iterate: a call does not return
\* an iterate updated after its last evaluation.
C4_UpdateThenEvaluate ==
  /\ [][\A i \in Invocations : IsMGL(i) =>
          /\ Moves(i, {"omega"}, "theta")
          /\ Moves(i, {"theta"}, "dual")
          /\ Moves(i, {"dual"}, "loop")]_vars
  /\ [](\A i \in Invocations :
          (IsMGL(i) /\ ValidCall(i) /\ frame[i].fresh) => MGL_IterationFlow(i))
  /\ [](\A i \in Invocations :
          (IsMGL(i) /\ ValidCall(i) /\ Returned(i)) => ~frame[i].fresh)

\* the iterate of ext_ADMM_MGL after an iteration, against the iterate prev the
\* iteration started from
EXT_IterationFlow(i) ==
  LET f == frame[i]
      a == f.arg
      Ks == 0 .. f.K - 1
      S == DictVal(heap, a.S)
      Omega == DictVal(heap, f.Omega_t)
      Theta == DictVal(heap, f.Theta_t)
      Lambda == DictVal(heap, f.Lambda_t)
      beta == FDiv(SC, f.rho)
  IN /\ \A k \in Ks :
          Omega[k] = phiplus(MSub(MSub(f.prev.Theta[k], f.prev.X0[k]), MScale(beta, S[k])),
                             beta)
     /\ \A k \in Ks :
          Theta[k] = prox_od_1norm(
                       MHalf(MSub(MAdd(MAdd(Omega[k], f.prev.X0[k]), f.prev.Lambda[k]),
                                  f.prev.X1[k])),
                       FDiv(f.lam1[k], 2 * f.rho))
     /\ Lambda = prox_2norm_G([k \in Ks |-> MAdd(Theta[k], f.prev.X1[k])], heap[a.G],
                              FDiv(a.lambda2, f.rho)).val
     /\ \A k \in Ks :
          /\ DictVal(heap, f.X0_t)[k] = MAdd(f.prev.X0[k], MSub(Omega[k], Theta[k]))
          /\ DictVal(heap, f.X1_t)[k] = MAdd(f.prev.X1[k], MSub(Theta[k], Lambda[k]))

\* C5: every iteration of ext_ADMM_MGL updates Omega, Theta, Lambda and the
\* duals in this order; Omega is computed from the previous Theta and X0,
\* Theta from the new Omega and the previous X0, Lambda, X1, Lambda from the
\* new Theta and the previous X1, the duals from the new Omega, Theta, Lambda.
C5_ExtUpdateOrder ==
  /\ [][\A i \in Invocations : IsEXT(i) =>
          /\ Moves(i, {"omega"}, "theta")
          /\ Moves(i, {"theta"}, "lambda")
          /\ Moves(i, {"lambda"}, "dual")
          /\ Moves(i, {"dual"}, "loop")]_vars
  /\ [](\A i \in Invocations :
          (IsEXT(i) /\ ValidCall(i) /\ frame[i].fresh) => EXT_IterationFlow(i))

\* a valid call of ext_ADMM_MGL has just finished its second iteration
C5_Witness ==
  \E i \in Invocations :
    /\ IsEXT(i) /\ ValidCall(i)
    /\ frame[i].pc = "loop" /\ frame[i].fresh /\ frame[i].nupd = 2

\* ---- info ----------------------------------------------------------------
\* C6: a valid call with measure=True returns in info a 'runtime' and a
\* 'kkt_residual' sequence, each as long as the number of update iterations
\* the call made; with measure=False info holds only 'status'.
C6_TraceLengths ==
  \A i \in Invocations : (ValidCall(i) /\ Returned(i)) =>
    IF frame[i].arg.measure
    THEN /\ frame[i].info.measured
         /\ Len(frame[i].info.runtime) = frame[i].nupd
         /\ Len(frame[i].info.kkt_residual) = frame[i].nupd
    ELSE ~frame[i].info.measured

\* ---- the caller's objects -------------------------------------------------
\* C7: the objects the caller passed (S, G, Omega_0, Theta_0, X_0, and for
\* ext_ADMM_MGL the matrices these dicts hold) have at every moment of a call,
\* and so on return, the values they had at call time.
C7_CallerDataUnchanged ==
  \A x \in DOMAIN heap0 : x \in DOMAIN heap /\ heap[x] = heap0[x]

\* a call of ADMM_MGL with Theta_0 and X_0 supplied returned after two iterations
C7_Witness ==
  \E i \in Invocations :
    /\ IsMGL(i) /\ frame[i].arg.Theta_0 # Null /\ frame[i].arg.X_0 # Null
    /\ Returned(i) /\ frame[i].nupd >= 2

\* C8: of invocations on the same objects S, G, Omega_0 whose steps interleave,
\* each is at every step where the same invocation run alone is at that step:
\* it holds the same values, and returns the same sol and info.
C8_InterleavingInvisible ==
  \A i \in Invocations :
    /\ frame[i] = alone_frame[i]
    /\ \A x \in DOMAIN alone_heap[i] : x \in DOMAIN heap /\ heap[x] = alone_heap[i][x]

\* invocation 1 has returned after an iteration while invocation 2 is in the
\* middle of its second iteration
C8_Witness ==
  /\ Invocations = {1, 2}
  /\ Returned(1) /\ frame[1].nupd >= 1
  /\ frame[2].pc = "dual" /\ frame[2].nupd = 1

\* the matrix objects of an iterate, or of sol, of invocation i
MatrixObjects(i, it) ==
  IF IsMGL(i)
  THEN {it.Omega, it.Theta, it.X} \ {Null}
  ELSE UNION {{heap[d][k] : k \in DOMAIN heap[d]} :
                d \in {it.Omega, it.Theta, it.Lambda, it.X0, it.X1} \ {Null}}

\* the matrix objects of the starting point Omega_0 of invocation i
StartObjects(i) ==
  LET Omega_0 == frame[i].arg.Omega_0
  IN IF IsMGL(i) THEN {Omega_0} ELSE {heap[Omega_0][k] : k \in DOMAIN heap[Omega_0]}

\* C9: at no moment of a valid call, and not in what it returns, is a matrix of
\* the iterate (Omega, Theta, Lambda, the duals) the same object as a matrix of
\* the caller's Omega_0.
C9_IterateOwned ==
  \A i \in Invocations : ValidCall(i) =>
    /\ MatrixObjects(i, CurrentIterate(i)) \cap StartObjects(i) = {}
    /\ Returned(i) => MatrixObjects(i, ReturnedIterate(i)) \cap StartObjects(i) = {}

\* ---- the preconditions ----------------------------------------------------
\* the violations the claim lists, on the arguments of invocation i
PreconditionViolated(i) ==
  LET a == frame[i].arg
  IN \/ a.lambda1.kind # "int" /\ \E k \in DOMAIN a.lambda1.v : a.lambda1.v[k] <= 0
     \/ a.lambda2 <= 0
     \/ a.kw.has_rho /\ a.kw.rho <= 0
     \/ IsMGL(i) /\
          LET S == heap0[a.S]
          IN \/ Shape3(heap0[a.Omega_0]) # Shape3(S)
             \/ ~IsSquare(S[0])
             \/ a.reg \notin {"GGL", "FGL"}
     \/ IsEXT(i) /\
          LET S == DictVal(heap0, a.S)
              Omega_0 == DictVal(heap0, a.Omega_0)
          IN \/ \E k \in DOMAIN S : MatShape(Omega_0[k]) # MatShape(S[k]) \/ ~IsSquare(S[k])
             \/ a.reg # "GGL"
             \/ ~check_G(heap0[a.G], [k \in DOMAIN S |-> S[k].r])

\* C10: a call that violates a precondition evaluates no stopping criterion,
\* updates nothing and returns nothing: it is at its start or has raised.
C10_PreconditionsFirst ==
  \A i \in Invocations : PreconditionViolated(i) =>
    /\ frame[i].pc \in {"start", "raised"}
    /\ frame[i].nevals = 0 /\ frame[i].nupd = 0

\* ---- symmetric input ------------------------------------------------------
\* the arguments the caller gave: to the solver, or to glasso_problem and solve
Given(i) == IF frame[i].self.made THEN frame[i].self.given ELSE frame[i].arg

\* S and Omega_0 of the caller are dicts of matrices (else 3d arrays)
GivenDicts(a) ==
  a.solver = "ext_ADMM_MGL" \/ (a.solver = "glasso_problem" /\ a.S_type # "ndarray")

\* the matrices of the caller's object x (a 2d array is one matrix)
GivenMatrices(a, x) ==
  IF GivenDicts(a) THEN DictVal(heap0, x)
  ELSE IF a.solver = "glasso_problem" /\ a.ndim = 2 THEN [k \in {0} |-> heap0[x]]
  ELSE heap0[x]

\* a square matrix that differs from its transpose by more than the tolerance
Asymmetric(A) == IsSquare(A) /\ ~IsSymmetric(A)

\* the caller's S, or the starting point the caller passed, is not symmetric
AsymmetricInput(i) ==
  LET a == Given(i)
  IN \/ \E k \in DOMAIN GivenMatrices(a, a.S) : Asymmetric(GivenMatrices(a, a.S)[k])
     \/ a.Omega_0 # Null /\
          \E k \in DOMAIN GivenMatrices(a, a.Omega_0) :
             Asymmetric(GivenMatrices(a, a.Omega_0)[k])

\* C11: a call whose S or Omega_0 is not symmetric, made to ADMM_MGL or
\* ext_ADMM_MGL directly or through glasso_problem and solve, never enters the
\* iteration: it evaluates no stopping criterion, updates no iterate, and
\* returns nothing.
C11_AsymmetricInputRejected ==
  \A i \in Invocations : AsymmetricInput(i) =>
    /\ frame[i].iter_t = Unbound
    /\ frame[i].nevals = 0 /\ frame[i].nupd = 0
    /\ ~Returned(i) /\ frame[i].pc # "solved"


\* ---- the symmetry of the result -------------------------------------------
\* Omega_t[k] and Theta_t[k] of invocation i are symmetric for every k
FinalSymmetric(i) ==
  IF IsMGL(i)
  THEN TSymmetric(heap[frame[i].Omega_t]) /\ TSymmetric(heap[frame[i].Theta_t])
  ELSE \A k \in 0 .. frame[i].K - 1 :
         /\ IsSymmetric(DictVal(heap, frame[i].Omega_t)[k])
         /\ IsSymmetric(DictVal(heap, frame[i].Theta_t)[k])

\* C12: a solver whose loop has ended with an Omega_t[k] or Theta_t[k] that is
\* not symmetric raises at its next step and has returned neither sol nor info;
\* a solver that has returned holds symmetric Omega and Theta.
C12_SymmetricOrNothing ==
  /\ [](\A i \in Invocations :
          (frame[i].Omega_t # Null /\ ~FinalSymmetric(i)) =>
             /\ ~Returned(i)
             /\ frame[i].sol = NoSol /\ frame[i].info = NoInfo)
  /\ [][\A i \in Invocations :
          (frame[i].pc = "after" /\ frame[i].eta_A # Unbound /\ ~FinalSymmetric(i)) =>
             frame'[i].pc \in {"after", "raised"}]_vars

\* ADMM_MGL left the loop at the first evaluation, with the status 'optimal', and
\* the assertion on the result stopped it: its Omega_t is not symmetric
C12_Witness ==
  \E i \in Invocations :
    /\ IsMGL(i) /\ Raised(i) /\ frame[i].exc = "AssertionError"
    /\ frame[i].status = "optimal" /\ frame[i].nevals = 1
    /\ ~TSymmetric(heap[frame[i].Omega_t])


\* ---- prox_2norm_G ---------------------------------------------------------
IsProx(i) == frame[i].arg.solver = "prox_2norm_G"

\* the dict X and the array G the caller passed, as they were at the call
PG_X(i) == DictVal(heap0, frame[i].arg.X)

PG_G(i) == heap0[frame[i].arg.G]

\* what the first and the second call returned
PG_First(i) == DictVal(heap, frame[i].pg.first)

PG_Second(i) == DictVal(heap, frame[i].pg.ret)

\* the instances that take part in group l, and the coordinate of each
Participants(G, l) == {k \in 0 .. G.K - 1 : G.g[<<0, l, k>>] # -1}

Coord(G, l, k) == <<G.g[<<0, l, k>>], G.g[<<1, l, k>>]>>

Mirror(c) == <<c[2], c[1]>>

\* the groups that use entry ij of instance k, at the coordinate or mirrored
GroupsOf(G, k, ij) ==
  {l \in 0 .. G.L - 1 : k \in Participants(G, l) /\ ij \in {Coord(G, l, k), Mirror(Coord(G, l, k))}}

\* G has shape (2, L, K) for the K matrices of X; the coordinates of an instance
\* in a group are both -1 or both indices of its matrix
GroupMapFits(X, G) ==
  /\ G.d0 = 2 /\ G.K = Cardinality(DOMAIN X)
  /\ \A l \in 0 .. G.L - 1 : \A k \in 0 .. G.K - 1 :
       \/ Coord(G, l, k) = <<-1, -1>>
       \/ Coord(G, l, k) \in Idx(X[k].r, X[k].c) /\ Mirror(Coord(G, l, k)) \in Idx(X[k].r, X[k].c)

\* no entry of an instance is used by two groups
GroupsDisjoint(X, G) ==
  \A k \in DOMAIN X : \A ij \in Idx(X[k].r, X[k].c) : Cardinality(GroupsOf(G, k, ij)) <= 1

\* a call the operator is defined for
PG_ValidCall(i) ==
  /\ IsProx(i) /\ frame[i].arg.l2 > 0
  /\ \A k \in DOMAIN PG_X(i) : IsSymmetric(PG_X(i)[k])
  /\ GroupMapFits(PG_X(i), PG_G(i))

\* the vector of group l gathered from X in instance order
Gathered(X, G, l) == [k \in Participants(G, l) |-> X[k].e[Coord(G, l, k)]]

\* Y is X with every group replaced by the block shrinkage of its vector
ShrunkGroupwise(X, Y, G, l2) ==
  /\ DOMAIN Y = DOMAIN X
  /\ \A k \in DOMAIN X : MatShape(Y[k]) = MatShape(X[k])
  /\ \A l \in 0 .. G.L - 1 : \A k \in Participants(G, l) :
       /\ Y[k].e[Coord(G, l, k)] = prox_2norm(Gathered(X, G, l), l2)[k]
       /\ Y[k].e[Mirror(Coord(G, l, k))] = prox_2norm(Gathered(X, G, l), l2)[k]
  /\ \A k \in DOMAIN X : \A ij \in Idx(X[k].r, X[k].c) :
       GroupsOf(G, k, ij) = {} => Y[k].e[ij] = X[k].e[ij]

\* C13: a call of prox_2norm_G on symmetric X, with l2 > 0 and a G that uses no
\* entry of an instance in two groups, returns, and its result has at the
\* coordinates of every group the block shrinkage prox_2norm(v, l2) of the
\* vector v gathered from X at these coordinates over the participating
\* instances; instances marked -1 give nothing to v and are not written; every
\* entry in no group equals the input entry.
C13_GroupwiseShrinkage ==
  \A i \in Invocations :
    (PG_ValidCall(i) /\ GroupsDisjoint(PG_X(i), PG_G(i))) =>
      /\ ~Raised(i)
      /\ frame[i].pg.calls >= 1 =>
           ShrunkGroupwise(PG_X(i), PG_First(i), PG_G(i), frame[i].arg.l2)

\* a returned call with one group of two instances and one group that instance 1
\* takes no part in, whose result differs from X
C13_Witness ==
  \E i \in Invocations :
    /\ PG_ValidCall(i) /\ GroupsDisjoint(PG_X(i), PG_G(i)) /\ frame[i].pg.calls >= 1
    /\ \E l \in 0 .. PG_G(i).L - 1 : Participants(PG_G(i), l) = {0, 1}
    /\ \E l \in 0 .. PG_G(i).L - 1 : Participants(PG_G(i), l) = {0}
    /\ PG_First(i) # PG_X(i)

\* C14: every matrix prox_2norm_G holds in X1 while it works through the groups,
\* and every matrix it returns, is symmetric, for every symmetric X and every G
\* with valid coordinates, also when G puts (i,j) and (j,i) of an instance in
\* different groups.
C14_OutputSymmetric ==
  \A i \in Invocations : PG_ValidCall(i) =>
    /\ frame[i].pg.X1 # Null =>
         \A k \in DOMAIN PG_X(i) : IsSymmetric(DictVal(heap, frame[i].pg.X1)[k])
    /\ frame[i].pg.calls >= 1 =>
         /\ \A k \in DOMAIN PG_X(i) : IsSymmetric(PG_First(i)[k])
         /\ \A k \in DOMAIN PG_X(i) : IsSymmetric(PG_Second(i)[k])

\* a returned call whose G holds (1,0) and (0,1) of instance 0 in two groups, and
\* which changed that entry
C14_Witness ==
  \E i \in Invocations :
    /\ PG_ValidCall(i) /\ frame[i].pg.calls >= 1
    /\ GroupsOf(PG_G(i), 0, <<1, 0>>) = {0, 1}
    /\ Coord(PG_G(i), 0, 0) = <<1, 0>> /\ Coord(PG_G(i), 1, 0) = <<0, 1>>
    /\ PG_First(i)[0].e[<<1, 0>>] # PG_X(i)[0].e[<<1, 0>>]

\* a precondition of prox_2norm_G does not hold at the call
PG_PreconditionViolated(i) ==
  /\ IsProx(i)
  /\ \/ frame[i].arg.l2 <= 0
     \/ \E k \in DOMAIN PG_X(i) : ~IsSymmetric(PG_X(i)[k])
     \/ PG_G(i).d0 # 2
     \/ PG_G(i).K # Cardinality(DOMAIN PG_X(i))

\* C15: a call of prox_2norm_G with a matrix that is not symmetric, with l2 <= 0,
\* or with a G whose first dimension is not 2 or whose last is not K, fails with
\* an AssertionError before the copy is made and before any group is processed,
\* and the caller's X holds the values it held at the call.
C15_AssertsBeforeWork ==
  \A i \in Invocations : PG_PreconditionViolated(i) =>
    /\ frame[i].pc \in {"start", "raised"}
    /\ Raised(i) => frame[i].exc = "AssertionError"
    /\ frame[i].pg.X1 = Null /\ frame[i].pg.l = 0 /\ frame[i].pg.calls = 0
    /\ \A x \in DOMAIN heap0 : heap[x] = heap0[x]

\* a call with l2 > 0 and a fitting G was stopped for a matrix that is not symmetric
C15_Witness ==
  \E i \in Invocations :
    /\ IsProx(i) /\ Raised(i) /\ frame[i].arg.l2 > 0
    /\ GroupMapFits(PG_X(i), PG_G(i))
    /\ \E k \in DOMAIN PG_X(i) : Asymmetric(PG_X(i)[k])

\* C16 as stated: the second call, on the result of the first and with the same
\* G and l2, returns what the first call returned.
C16_Idempotent ==
  \A i \in Invocations :
    (PG_ValidCall(i) /\ frame[i].pg.calls = 2) => PG_Second(i) = PG_First(i)

\* C16, amended: the second call shrinks every group again.  Its result holds at
\* every group the shrinkage of what the first call returned there: an entry of a
\* group that the first call left nonzero is strictly smaller in magnitude, an
\* entry it set to zero stays zero; entries in no group are the input's.
C16_ShrinksAgain ==
  \A i \in Invocations :
    (PG_ValidCall(i) /\ GroupsDisjoint(PG_X(i), PG_G(i)) /\ frame[i].pg.calls = 2) =>
      /\ ShrunkGroupwise(PG_First(i), PG_Second(i), PG_G(i), frame[i].arg.l2)
      /\ \A l \in 0 .. PG_G(i).L - 1 : \A k \in Participants(PG_G(i), l) :
           LET y == PG_First(i)[k].e[Coord(PG_G(i), l, k)]
               z == PG_Second(i)[k].e[Coord(PG_G(i), l, k)]
           IN IF y = 0 THEN z = 0 ELSE Abs(z) < Abs(y)
      /\ \A k \in DOMAIN PG_X(i) : \A ij \in Idx(PG_X(i)[k].r, PG_X(i)[k].c) :
           GroupsOf(PG_G(i), k, ij) = {} => PG_Second(i)[k].e[ij] = PG_X(i)[k].e[ij]

\* the second call returned, and changed an entry the first call had left nonzero
C16_Witness ==
  \E i \in Invocations :
    /\ PG_ValidCall(i) /\ GroupsDisjoint(PG_X(i), PG_G(i)) /\ frame[i].pg.calls = 2
    /\ \E l \in 0 .. PG_G(i).L - 1 : \E k \in Participants(PG_G(i), l) :
         /\ PG_First(i)[k].e[Coord(PG_G(i), l, k)] # 0
         /\ PG_Second(i)[k].e[Coord(PG_G(i), l, k)] # 0
         /\ PG_Second(i)[k].e[Coord(PG_G(i), l, k)] # PG_First(i)[k].e[Coord(PG_G(i), l, k)]


\* ---- the forms of lambda1 and n_samples ---------------------------------------
\* lambda1 as the caller means it: a scalar (a float, or an integer n, which is
\* the number n) for every instance, or entry k of the vector for instance k
MeantLambda1(lambda1, K) ==
  [k \in 0 .. K - 1 |->
     IF lambda1.kind = "float" THEN lambda1.v[0]
     ELSE IF lambda1.kind = "int" THEN lambda1.v[0] * SC
     ELSE lambda1.v[k]]

\* a call of ext_ADMM_MGL that is valid for a lambda1 of one of the three forms
EXT_ValidUpToLambda1(i) ==
  LET a == frame[i].arg
  IN /\ IsEXT(i)
     /\ EXT_ValidArgs([a EXCEPT !.lambda1 = Scalar("float", SC)], heap0)
     /\ a.lambda1.kind \in {"float", "int", "vector"}
     /\ a.lambda1.kind = "vector" => DOMAIN a.lambda1.v = DOMAIN DictVal(heap0, a.S)
     /\ \A k \in DOMAIN a.lambda1.v : a.lambda1.v[k] > 0

\* C17: ext_ADMM_MGL called with a positive lambda1 that is a float, an integer
\* or a vector of length K holds, once it has left its validation, as lambda1
\* the vector of length K that holds the scalar at every k, or the
\* supplied vector.
C17_Lambda1Normalized ==
  \A i \in Invocations : (EXT_ValidUpToLambda1(i) /\ frame[i].pc # "start") =>
         frame[i].lam1 = MeantLambda1(frame[i].arg.lambda1,
                                      Cardinality(DOMAIN DictVal(heap0, frame[i].arg.S)))

\* the weights n_k the caller means by n_samples
MeantWeights(n_samples, K) ==
  [k \in 0 .. K - 1 |->
     IF n_samples.kind = "None" THEN 1
     ELSE IF n_samples.kind = "int" THEN n_samples.v[0]
     ELSE n_samples.v[k]]

\* a call of ADMM_MGL that is valid for an n_samples of one of the three forms
MGL_ValidUpToSamples(i) ==
  LET a == frame[i].arg
  IN /\ IsMGL(i)
     /\ MGL_ValidArgs([a EXCEPT !.n_samples = Scalar("None", 0)], heap0)
     /\ a.n_samples.kind \in {"None", "int", "array"}
     /\ a.n_samples.kind = "array" => DOMAIN a.n_samples.v = DOMAIN heap0[a.S]
     /\ a.n_samples.kind # "None" => \A k \in DOMAIN a.n_samples.v : a.n_samples.v[k] > 0

\* C18: ADMM_MGL called with n_samples None, an integer, or an array of length K
\* holds, once it has left its validation, the weights n_k = 1, the integer, or
\* entry k of the array.
C18_SampleSizesAccepted ==
  \A i \in Invocations : (MGL_ValidUpToSamples(i) /\ frame[i].pc # "start") =>
         frame[i].nk = MeantWeights(frame[i].arg.n_samples, Cardinality(DOMAIN heap0[frame[i].arg.S]))


\* ---- the solver configuration ------------------------------------------------
\* C19: a solver that has left its validation holds the max_iter and the rho its
\* caller supplied through kwargs, and 1000 and 1.0 where the caller supplied
\* none, and it starts no iteration beyond the max_iter supplied; for ADMM_MGL,
\* ext_ADMM_MGL and latent_ADMM_GGL.
C19_ConfigurationFromCaller ==
  \A i \in Invocations :
    (frame[i].arg.solver \in {"ADMM_MGL", "ext_ADMM_MGL", "latent_ADMM_GGL"}
       /\ frame[i].pc \notin {"start", "raised"}) =>
      LET kw == frame[i].arg.kw
          supplied == IF kw.has_max_iter THEN kw.max_iter ELSE 1000
      IN /\ frame[i].max_iter = supplied
         /\ frame[i].rho = IF kw.has_rho THEN kw.rho ELSE SC
         /\ frame[i].iter_t < supplied


\* ---- the tolerance of glasso_problem.solve -----------------------------------
\* invocation i is a glasso_problem whose solve has dispatched to a solver
Dispatched(i) ==
  frame[i].self.made /\ frame[i].arg.solver \in {"ADMM_MGL", "ext_ADMM_MGL"}

\* C20: the solver that glasso_problem.solve(tol = ...) dispatches to stops on
\* tol: it is called with tol as its threshold, it runs an iteration only after
\* a residual above tol, and a residual of at most tol ends its loop with status
\* 'optimal'.
C20_TolIsThreshold ==
  \A i \in Invocations : Dispatched(i) =>
    /\ frame[i].arg.eps_admm = frame[i].self.tol
    /\ frame[i].pc \in {"omega", "theta", "lambda", "dual"} => frame[i].eta_A > frame[i].self.tol
    /\ (frame[i].pc \in {"after", "done", "solved"} /\ frame[i].eta_A # Unbound
          /\ ~frame[i].fresh /\ frame[i].eta_A <= frame[i].self.tol) =>
         frame[i].status = "optimal"


\* ---- a starting point that already meets the criterion -----------------------
\* the call passes neither Theta_0 nor X_0 (ext_ADMM_MGL has no such parameters)
ColdStart(i) == IsMGL(i) => (frame[i].arg.Theta_0 = Null /\ frame[i].arg.X_0 = Null)

\* the residual of Omega = Theta (= Lambda) = Omega_0 and zero duals, on the
\* caller's data as they were at the call
InitialResidual(i) ==
  LET a == frame[i].arg
  IN IF IsMGL(i)
     THEN LET S == heap0[a.S]
              O == heap0[a.Omega_0]
          IN ADMM_stopping_criterion(O, O, [k \in DOMAIN S |-> Zeros(S[0].r, S[0].r)], S,
                 a.lambda1.v[0], a.lambda2,
                 [k \in DOMAIN S |-> IF a.n_samples.kind = "None" THEN 1 ELSE a.n_samples.v[0]],
                 a.reg)
     ELSE LET S == DictVal(heap0, a.S)
              O == DictVal(heap0, a.Omega_0)
              Z == [k \in DOMAIN S |-> Zeros(S[k].r, S[k].r)]
          IN ext_ADMM_stopping_criterion(O, O, O, Z, Z, S, heap0[a.G],
                 MeantLambda1(a.lambda1, Cardinality(DOMAIN S)), a.lambda2).val

\* the starting point of a valid call meets the criterion
ConvergedStart(i) ==
  ValidCall(i) /\ ColdStart(i) /\ InitialResidual(i) <= frame[i].arg.eps_admm

\* what the call returned equals the starting point: Omega = Theta = Omega_0 and
\* zero duals
ReturnedStart(i) ==
  LET a == frame[i].arg
      sol == frame[i].sol
  IN IF IsMGL(i)
     THEN /\ heap[sol.Omega] = heap0[a.Omega_0]
          /\ heap[sol.Theta] = heap0[a.Omega_0]
          /\ \A k \in DOMAIN heap[sol.X] : heap[sol.X][k] = Zeros(heap0[a.S][0].r, heap0[a.S][0].r)
     ELSE /\ DictVal(heap, sol.Omega) = DictVal(heap0, a.Omega_0)
          /\ DictVal(heap, sol.Theta) = DictVal(heap0, a.Omega_0)
          /\ \A k \in DOMAIN heap[sol.X0] :
               /\ DictVal(heap, sol.X0)[k] = Zeros(DictVal(heap0, a.S)[k].r, DictVal(heap0, a.S)[k].r)
               /\ DictVal(heap, sol.X1)[k] = Zeros(DictVal(heap0, a.S)[k].r, DictVal(heap0, a.S)[k].r)

\* C24: a valid call of ADMM_MGL without Theta_0 and X_0, or of ext_ADMM_MGL,
\* whose starting point already has a residual <= eps_admm raises nothing, makes
\* no update, and what it returns is status 'optimal', Omega = Theta = Omega_0,
\* zero duals and, with measure, empty runtime and kkt_residual.
C24_ConvergedStartReturned ==
  \A i \in Invocations : ConvergedStart(i) =>
    /\ ~Raised(i)
    /\ frame[i].nupd = 0
    /\ Returned(i) =>
         /\ frame[i].info.status = "optimal"
         /\ ReturnedStart(i)
         /\ frame[i].arg.measure =>
              (frame[i].info.runtime = <<>> /\ frame[i].info.kkt_residual = <<>>)


\* ---- symmetry of the iterates of ext_ADMM_MGL -----------------------------------
\* every S[k] and Omega_0[k] is a symmetric matrix, and G is valid for S
EXT_SymmetricInput(i) ==
  LET a == frame[i].arg
      S == DictVal(heap0, a.S)
      Omega_0 == DictVal(heap0, a.Omega_0)
  IN /\ IsEXT(i)
     /\ DOMAIN Omega_0 = DOMAIN S
     /\ \A k \in DOMAIN S :
          /\ IsSquare(S[k]) /\ IsSymmetric(S[k])
          /\ MatShape(Omega_0[k]) = MatShape(S[k]) /\ IsSymmetric(Omega_0[k])
     /\ check_G(heap0[a.G], [k \in DOMAIN S |-> S[k].r])

\* the dict at address d, if bound, holds symmetric matrices only
DictSymmetric(d) == d # Null => \A k \in DOMAIN heap[d] : IsSymmetric(heap[heap[d][k]])

\* C25: in a call of ext_ADMM_MGL on symmetric S and Omega_0 and a valid G,
\* every Omega_t[k], Theta_t[k], Lambda_t[k], X0_t[k] and X1_t[k] is symmetric
\* in every state, and no assertion fails once the iterate is initialised:
\* neither the symmetry assertion of prox_2norm_G nor the one after the loop.
C25_ExtIteratesSymmetric ==
  \A i \in Invocations : EXT_SymmetricInput(i) =>
    /\ DictSymmetric(frame[i].Omega_t) /\ DictSymmetric(frame[i].Theta_t)
    /\ DictSymmetric(frame[i].Lambda_t)
    /\ DictSymmetric(frame[i].X0_t) /\ DictSymmetric(frame[i].X1_t)
    /\ (Raised(i) /\ frame[i].Omega_t # Null) => frame[i].exc # "AssertionError"

\* a call on such input returned after two iterations, with a Theta that has
\* entries off the diagonal and duals that are not zero
C25_Witness ==
  \E i \in Invocations :
    /\ EXT_SymmetricInput(i) /\ Returned(i) /\ frame[i].nupd >= 2
    /\ \E k \in DOMAIN heap[frame[i].Theta_t] :
         /\ DictVal(heap, frame[i].Theta_t)[k].r = 2
         /\ DictVal(heap, frame[i].Theta_t)[k].e[<<1, 0>>] # 0
         /\ DictVal(heap, frame[i].X0_t)[k].e[<<1, 0>>] # 0



\* ---- the variant of a problem ------------------------------------------------
\* invocation i is a call of glasso_problem (followed by solve)
IsProblem(i) == frame[i].self.made \/ frame[i].arg.solver = "glasso_problem"

\* solve() of the problem i has called a solver
Called(i) == frame[i].self.made /\ frame[i].arg.solver # "glasso_problem"

\* the number of entries of the caller's list or dict S
Entries(a) == Cardinality(DOMAIN heap0[a.S])

\* a list or dict S that glasso_problem takes: more than one matrix, and G
ListWithG(a) == a.S_type \in {"list", "dict"} /\ Entries(a) > 1 /\ a.G # Null

\* the problem i is of the variant (multiple, conforming) and no other solver
\* than the given one is called for it
VariantIs(i, multiple, conforming, solver) ==
  /\ frame[i].self.made =>
       (frame[i].self.multiple = multiple /\ frame[i].self.conforming = conforming)
  /\ Called(i) => frame[i].arg.solver = solver

\* the construction of problem i has failed, with an exception of the set excs
RejectedWith(i, excs) ==
  /\ ~frame[i].self.made
  /\ frame[i].pc # "start" => (Raised(i) /\ frame[i].exc \in excs)

\* C21: glasso_problem chooses the variant from the type and shape of S, and
\* solve() calls the one matching solver: a 2d array is a single problem for
\* ADMM_SGL, a 3d array a conforming multiple problem for ADMM_MGL, a list or
\* dict of more than one matrix with G a non-conforming multiple problem for
\* ext_ADMM_MGL; an S of any other type raises TypeError, and a list or dict
\* with one entry or without G is rejected at construction.
C21_VariantFromS ==
  \A i \in Invocations : IsProblem(i) =>
    LET a == Given(i)
    IN /\ (a.S_type = "ndarray" /\ a.ndim = 2) => VariantIs(i, FALSE, TRUE, "ADMM_SGL")
       /\ (a.S_type = "ndarray" /\ a.ndim = 3) => VariantIs(i, TRUE, TRUE, "ADMM_MGL")
       /\ ListWithG(a) => VariantIs(i, TRUE, FALSE, "ext_ADMM_MGL")
       /\ a.S_type \notin {"ndarray", "list", "dict"} => RejectedWith(i, {"TypeError"})
       /\ (a.S_type \in {"list", "dict"} /\ ~ListWithG(a)) =>
            RejectedWith(i, {"AssertionError"})


\* ---- latent problems ---------------------------------------------------------
\* C22: once solve() has called the solver of a problem constructed with
\* latent = True, it does not end in an error, and when it is through,
\* solution.precision_ and solution.lowrank_ both hold a component of the
\* estimate; for single and for multiple problems alike.
C22_LatentSolutionStored ==
  \A i \in Invocations : (Called(i) /\ frame[i].self.latent) =>
    /\ ~Raised(i)
    /\ frame[i].pc = "solved" =>
         (frame[i].self.precision # Null /\ frame[i].self.lowrank # Null)


\* ---- the regularization parameters -------------------------------------------
\* the dicts given to problem i so far, in call order: the reg_params of the
\* constructor, then the arguments of the set_reg_params calls made (None: empty)
SuppliedDicts(i) ==
  LET a == frame[i].self.given
  IN <<a.reg_params>> \o
       [n \in 1 .. frame[i].self.nset |->
          IF a.more[n].kind = "None" THEN <<>> ELSE a.more[n].d]

\* the positions of the dicts of ds that hold the key x
Holding(ds, x) == {n \in 1 .. Len(ds) : x \in DOMAIN ds[n]}

\* the documented default of the key x for problem i: lambda1 = 1e-2, lambda2 =
\* 1e-2, mu1 = 1e-1 (per instance for a multiple problem) when latent, else None
DocumentedDefault(i, x) ==
  IF x = "lambda1" THEN Scalar("float", SC \div 100)
  ELSE IF x = "lambda2" THEN SC \div 100
  ELSE IF ~frame[i].self.latent THEN Scalar("None", 0)
  ELSE IF frame[i].self.multiple
    THEN Vector([k \in 0 .. frame[i].self.K - 1 |-> SC \div 10])
  ELSE Scalar("float", SC \div 10)

\* C23: after the construction and any sequence of set_reg_params calls,
\* reg_params holds the default keys and the supplied ones, each with the value
\* of the last supplied dict that has the key, or its default if none has: a
\* call with a subset of the keys leaves the other keys as they were, a call
\* with None or an empty dict changes nothing.
C23_RegParamsOverridden ==
  \A i \in Invocations : frame[i].self.made =>
    LET ds == SuppliedDicts(i)
        defaults == {"lambda1", "mu1"} \cup
                      (IF frame[i].self.multiple THEN {"lambda2"} ELSE {})
        rp == frame[i].self.reg_params
    IN /\ DOMAIN rp = defaults \cup UNION {DOMAIN ds[n] : n \in 1 .. Len(ds)}
       /\ \A x \in DOMAIN rp :
            rp[x] = IF Holding(ds, x) = {} THEN DocumentedDefault(i, x)
                    ELSE ds[CHOOSE n \in Holding(ds, x) :
                              \A o \in Holding(ds, x) : o <= n][x]

\* lambda1 was overridden by a call that gave nothing else, a call with None
\* followed: lambda2 is still the constructor's, mu1 still the default
C23_Witness ==
  \E i \in Invocations :
    /\ frame[i].self.made /\ frame[i].self.nset = 2
    /\ frame[i].self.given.reg_params = RegParams(SC \div 10, SC \div 5)
    /\ frame[i].self.given.more[1].kind = "dict"
    /\ DOMAIN frame[i].self.given.more[1].d = {"lambda1"}
    /\ frame[i].self.given.more[2].kind = "None"
    /\ frame[i].self.reg_params["lambda1"] = Scalar("float", SC \div 4)
    /\ frame[i].self.reg_params["lambda2"] = SC \div 5
    /\ frame[i].self.reg_params["mu1"].kind = "None"

====
